---- MODULE Spec2Model ----
(***************************************************************************)
(* FrePathe: project state store, shot render orchestration, retry policy  *)
(* and timeline repair / tighten, modelled from src/main.py and            *)
(* src/services/*.py.                                                      *)
(*                                                                         *)
(* Times of the storyboard are integers.  In the tighten model one unit is *)
(* 0.05 s, so the 0.1 s bump of api_tighten is 2 units and its 0.06 s      *)
(* threshold admits gaps of 0 and 1 unit (0.05 s) but not 2 units (0.1 s). *)
(***************************************************************************)
EXTENDS Integers, Sequences, FiniteSets, TLC

VARIABLES
    sb,         \* storyboard of the timeline model: [sequences, shots]
    duration,   \* audio_dna.meta.duration_sec of the timeline model
    applied,    \* the timeline operations applied so far, oldest first
    sb0,        \* the storyboard before the first operation
    file,       \* text of PROJECTS_DIR/<pid>.json (main.py project_path)
    locfile,    \* text of <project_location>/project.json (services)
    orphans,    \* shot ids with a legacy render file <pid>_<shot_id>* in RENDERS_DIR
    now,        \* the clock read by now_iso()
    mem,        \* the state dict the caller of the store holds
    loaded,     \* what the last load_project returned
    last,       \* the store calls made so far, oldest first
    gpc,        \* where the generation of one shot render stands
    attempt,    \* loop variable of the retry_on_502 wrapper
    waits,      \* the time.sleep(wait) calls of the wrapper, in seconds
    reqs,       \* the generation requests sent, with the answer to each
    gres,       \* how the generation ended
    exc,        \* the exception the wrapped call ended with
    pc,         \* per request thread: where its handler stands
    lstate,     \* per request thread: the state dict the handler holds
    rres,       \* per render thread: how its generation ended
    ret,        \* per request thread: how the handler returned
    lock,       \* PROJECT_LOCKS[pid]: the thread holding it, or "free"
    castState,  \* cast model: state["cast"], character_refs, cast lists of sequences and shots
    SESSION_COST, \* the process-wide ledger [total, calls]
    costs,      \* state["costs"] of the stored project document
    API_COSTS,  \* the price table, as left by fetch_live_pricing at startup
    tracked,    \* ledger model: the model whose calls are tracked
    lastcall,   \* charge model: the last handler run and its backend calls
    cpc,        \* per thread inside track_cost: the statement it is at
    cread,      \* per thread inside track_cost: the total it read for "+="
    ipc,        \* per image render request: where api_render_shot stands
    RENDER_SEMAPHORE, \* free permits of the image semaphore
    vpc,        \* per video generation: where it stands
    VIDEO_SEMAPHORE,  \* free permits of the video semaphore
    fal_upload_cache, \* state["project"]["fal_upload_cache"]: asset -> uploaded URL
    prewarmed,  \* whether prewarm_fal_upload_cache has run, and the assets it left cached
    expired,    \* the uploaded URLs whose HEAD no longer answers below 400
    added,      \* per asset: the uploads made by renders after the prewarm
    upc,        \* per render: the reference it is at and the step of its upload
    rfiles,    \* files model: the stored shots and the render files on disk
    exportState, \* export model: EXPORT_STATUS of the project, the run in progress and the last poll
    styleState, \* style model: style_lock_image, character_refs, the generations in progress and the last render request
    sceneState, \* scene model: the sequence ids, cast_matrix.scenes, the wardrobe images on disk and the scene request in progress
    clipState, \* clip model: one clip of an img2vid export, the outcome of its ffmpeg runs and what the export used
    videoState, \* video model: one shot video generation, what the model was asked for and what was stored
    refState,  \* reference model: ref_a and ref_b of the cast and the references of the last render request
    lockState, \* lock model: PROJECT_LOCKS, its mutex, the lock objects and the threads that ask for them
    flightState, \* in-flight model: the persisted shots, the expansions made and one shot render from load to return
    timelineState  \* timeline model: the shots of one export, the clips collected and the duration each plays

timeVars == <<sb, duration, applied, sb0>>

diskVars == <<file, locfile, orphans, now>>

storeVars == <<mem, loaded, last>>

genVars == <<gpc, attempt, waits, reqs, gres, exc>>

threadVars == <<pc, lstate, rres, ret, lock>>

vars == <<sb, duration, applied, sb0, file, locfile, orphans, now, mem, loaded, last,
          gpc, attempt, waits, reqs, gres, exc, pc, lstate, rres, ret, lock,
          castState, SESSION_COST, costs, API_COSTS, tracked, lastcall, cpc, cread,
          ipc, RENDER_SEMAPHORE, vpc, VIDEO_SEMAPHORE,
          fal_upload_cache, prewarmed, expired, added, upc,
          rfiles,
          exportState,
          styleState,
          sceneState,
          clipState,
          videoState,
          refState,
          lockState,
          flightState,
          timelineState>>

CoreVars == <<timeVars, diskVars, storeVars, genVars, threadVars, castState>>

ledgerVars == <<SESSION_COST, costs, API_COSTS, tracked, lastcall, cpc, cread>>

poolVars == <<ipc, RENDER_SEMAPHORE, vpc, VIDEO_SEMAPHORE>>

uploadVars == <<fal_upload_cache, prewarmed, expired, added, upc>>

\* the variable groups of the ledger model and the models after it
moreVars == <<rfiles, exportState, styleState, sceneState, clipState, videoState, refState, lockState, flightState, timelineState>>

lateVars == <<ledgerVars, poolVars, uploadVars, moreVars>>

NotLedger == <<CoreVars, poolVars, uploadVars, moreVars>>

NotPool == <<CoreVars, ledgerVars, uploadVars, moreVars>>

NotUpload == <<CoreVars, ledgerVars, poolVars, moreVars>>

EarlierVars == <<CoreVars, ledgerVars, poolVars, uploadVars>>

NotFiles == <<EarlierVars, exportState, styleState, sceneState, clipState, videoState, refState, lockState, flightState, timelineState>>

NotExport == <<EarlierVars, rfiles, styleState, sceneState, clipState, videoState, refState, lockState, flightState, timelineState>>

NotStyle == <<EarlierVars, rfiles, exportState, sceneState, clipState, videoState, refState, lockState, flightState, timelineState>>

NotScene == <<EarlierVars, rfiles, exportState, styleState, clipState, videoState, refState, lockState, flightState, timelineState>>

NotClip == <<EarlierVars, rfiles, exportState, styleState, sceneState, videoState, refState, lockState, flightState, timelineState>>

NotVideo == <<EarlierVars, rfiles, exportState, styleState, sceneState, clipState, refState, lockState, flightState, timelineState>>

NotRefs == <<EarlierVars, rfiles, exportState, styleState, sceneState, clipState, videoState, lockState, flightState, timelineState>>

NotLocks == <<EarlierVars, rfiles, exportState, styleState, sceneState, clipState, videoState, refState, flightState, timelineState>>

NotFlight == <<EarlierVars, rfiles, exportState, styleState, sceneState, clipState, videoState, refState, lockState, timelineState>>

NotTimeline == <<EarlierVars, rfiles, exportState, styleState, sceneState, clipState, videoState, refState, lockState, flightState>>

----------------------------------------------------------------------------
(* Bounds                                                                  *)

MaxStoreOps == 2
RepairMaxT == 2
RepairMaxShots == 1
TightenMaxT == 4
TightenMaxShots == 3
MaxOps == 2
BuildMaxT == 2
MaxCast == 2

\* tracked calls of one behaviour of the ledger model
MaxCalls == 102

\* export runs of one behaviour, and rendered shots of one run
MaxExports == 2
MaxExportShots == 2

\* generation and clear requests of one behaviour of the style model
MaxStyleRuns == 3

\* requests of one behaviour of the scene model
MaxSceneOps == 5

\* longest clip and target duration, in tenths of a second
MaxClipTenths == 6

\* longest storyboard duration of a shot, in tenths of a second
MaxVideoTenths == 105

MaxLockCalls == 4

MaxFlightOps == 4

MaxTimelineShots == 3

\* concurrent shot render requests
MaxImageRequests == 7

\* video generations: the tasks of a batch and the direct single-shot calls
MaxBatchTasks == 9

MaxSingleCalls == 1

\* concurrent renders after a prewarm
MaxRenders == 2

\* track_cost calls of one behaviour of the session ledger model
MaxTracks == 4

----------------------------------------------------------------------------
(* Program constants                                                       *)

SeqIds == <<"seq_01", "seq_02">>

\* cur["end"] = cur["start"] + 0.1, in units of 0.05 s
TightenBump == 2

\* b["start"] - a["end"] <= 0.06, in units of 0.05 s
TightenGap == 1

SeqIdSet == {SeqIds[i] : i \in 1..Len(SeqIds)}

----------------------------------------------------------------------------
(* Project documents and the store: main.py load_project / save_project /  *)
(* recover_orphaned_renders, services/project_service.py save_project.     *)

\* main.py: VERSION = "1.6.6"
VERSION == "1.6.6"

\* services/config.py: VERSION = "1.8.8"
SvcVERSION == "1.8.8"

\* a project created by an older release
OldVersion == "1.5.9"

\* project.created_version absent (state["project"].get("created_version") is None)
NoVersion == "None"

Versions == {VERSION, SvcVERSION, OldVersion, NoVersion}

ShotIds == <<"seq_01_sh01", "seq_01_sh02">>

ShotIdSet == {ShotIds[i] : i \in 1..Len(ShotIds)}

NoUrl == "None"

\* "render": {"status":"none","image_url":None,"model":None,"error":None}
RenderNone == [status |-> "none", image_url |-> NoUrl, model |-> "None"]

RenderDone(url, model) == [status |-> "done", image_url |-> url, model |-> model]

RenderError(model) == [status |-> "error", image_url |-> NoUrl, model |-> model]

LegacyUrls == <<"/renders/pid_seq_01_sh01_0a.png", "/renders/pid_seq_01_sh02_0b.png">>

\* local_url = f"/renders/{f.name}" of the legacy file of a shot
LegacyUrl(shot_id) == LegacyUrls[CHOOSE i \in 1..Len(ShotIds) : ShotIds[i] = shot_id]

\* the "already has a valid render" skip left out
RecoverShotAlways(shot, orph) ==
    IF shot.shot_id \in orph
    THEN [shot EXCEPT !.render = RenderDone(LegacyUrl(shot.shot_id), "recovered")]
    ELSE shot

\* recover_orphaned_renders, the shot loop: one shot
RecoverShot(shot, orph) ==
    IF shot.render.image_url # NoUrl /\ shot.render.status = "done" THEN shot
    ELSE IF shot.shot_id \in orph
         THEN [shot EXCEPT !.render = RenderDone(LegacyUrl(shot.shot_id), "recovered")]
         ELSE shot

\* recovered > 0
Recovered(state, orph) ==
    \E i \in 1..Len(state.shots) : RecoverShot(state.shots[i], orph) # state.shots[i]

RecoverState(state, orph) ==
    [state EXCEPT !.shots = [i \in 1..Len(state.shots) |-> RecoverShot(state.shots[i], orph)]]

\* json.dumps(state): the document as a list of members closed by a brace
Dump(state) ==
    << [k |-> "created_version", v |-> <<state.created_version>>],
       [k |-> "updated_at", v |-> <<state.updated_at>>],
       [k |-> "project_location", v |-> <<state.project_location>>],
       [k |-> "shots", v |-> state.shots],
       [k |-> "}", v |-> <<>>] >>

\* json.loads(text) succeeds only on a complete document
Parses(text) == Len(text) = 5 /\ text[5].k = "}"

Parse(text) ==
    [created_version |-> text[1].v[1], updated_at |-> text[2].v[1],
     project_location |-> text[3].v[1], shots |-> text[4].v]

\* no <pid>.json: load_project raises 404
NoFile == [exists |-> FALSE, text |-> <<>>, copy |-> <<>>]

\* Path.write_text: open(..., "w") truncates, then the text is written
Truncated(f) == [f EXCEPT !.exists = TRUE, !.text = <<>>]

\* both write_text calls of save_project done: <pid>.json and the project
\* folder's project.json (which load_project never reads)
Written(state) == [exists |-> TRUE, text |-> Dump(state), copy |-> Dump(state)]

\* the version gate dropped: every save is written
SaveRefusedNever(state, force) == FALSE

\* main.py save_project: created_version and created_version != VERSION and not force
SaveRefused(state, force) ==
    state.created_version # NoVersion /\ state.created_version # VERSION /\ ~force

\* state["project"]["updated_at"] = now_iso()
Stamp(state, t) == [state EXCEPT !.updated_at = t]

\* services save_project: created_version is migrated, updated_at refreshed
SvcStamp(state, t) ==
    [state EXCEPT !.updated_at = t,
                  !.created_version = IF @ # NoVersion /\ @ # SvcVERSION THEN SvcVERSION ELSE @]

\* the two shots of the project, as api_expand_all stores them
FreshShots ==
    << [shot_id |-> ShotIds[1], sequence_id |-> "seq_01", start |-> 0, end |-> 2,
        render |-> RenderNone],
       [shot_id |-> ShotIds[2], sequence_id |-> "seq_01", start |-> 3, end |-> 5,
        render |-> RenderNone] >>

NullState ==
    [created_version |-> NoVersion, updated_at |-> 0, project_location |-> FALSE,
     shots |-> <<>>]

\* what load_project gives its caller: the state, or the HTTP error it raised
LoadResult(code, state) == [code |-> code, state |-> state]

\* main.py load_project up to the return of recover_orphaned_renders, with
\* the save_project(state, validate=False) it makes when recovered > 0:
\* [res: what is returned, file: the file afterwards, wrote: whether it saved]
load_project(f, orph, t) ==
    IF ~f.exists THEN [res |-> LoadResult(404, NullState), file |-> f, wrote |-> FALSE]
    ELSE IF ~Parses(f.text) THEN [res |-> LoadResult(500, NullState), file |-> f, wrote |-> FALSE]
    ELSE LET st  == Parse(f.text)
             rec == RecoverState(st, orph)
         IN  IF Recovered(st, orph) /\ ~SaveRefused(rec, FALSE)
             THEN [res |-> LoadResult(200, Stamp(rec, t)), file |-> Written(Stamp(rec, t)),
                   wrote |-> TRUE]
             ELSE [res |-> LoadResult(200, rec), file |-> f, wrote |-> FALSE]

----------------------------------------------------------------------------
(* Timeline repair: services/storyboard_service.py repair_timeline, and    *)
(* the same loops inlined in main.py api_repair_sequences.                 *)

\* a sequence that runs past the audio is removed instead of capped
RepairSeqStepDrop(acc, seq, D) ==
    IF seq.start >= D \/ seq.end > D \/ seq.start >= seq.end THEN acc ELSE Append(acc, seq)

\* the loop "for seq in sequences": one sequence
RepairSeqStep(acc, seq, D) ==
    IF seq.start >= D
    THEN acc
    ELSE LET s2 == IF seq.end > D THEN [seq EXCEPT !.end = D] ELSE seq
         IN  IF s2.start >= s2.end THEN acc ELSE Append(acc, s2)

RECURSIVE RepairSeqs(_, _, _, _)
RepairSeqs(seqs, i, acc, D) ==
    IF i > Len(seqs) THEN acc
    ELSE RepairSeqs(seqs, i + 1, RepairSeqStep(acc, seqs[i], D), D)

\* the ids of the sequences before the repair instead of the kept ones
ValidSeqIdsOriginal(seqs, repaired) == {seqs[i].sequence_id : i \in 1..Len(seqs)}

\* valid_seq_ids = {s["sequence_id"] for s in repaired}
ValidSeqIds(seqs, repaired) == {repaired[i].sequence_id : i \in 1..Len(repaired)}

RepairShotStep(acc, shot, valid, D) ==
    IF shot.sequence_id \notin valid THEN acc
    ELSE IF shot.start >= D THEN acc
    ELSE LET s2 == IF shot.end > D THEN [shot EXCEPT !.end = D] ELSE shot
         IN  IF s2.start >= s2.end THEN acc ELSE Append(acc, s2)

RECURSIVE RepairShots(_, _, _, _, _)
RepairShots(shots, i, acc, valid, D) ==
    IF i > Len(shots) THEN acc
    ELSE RepairShots(shots, i + 1, RepairShotStep(acc, shots[i], valid, D), valid, D)

repair_timeline(board, D) ==
    LET repaired == RepairSeqs(board.sequences, 1, <<>>, D)
        valid    == ValidSeqIds(board.sequences, repaired)
    IN  [sequences |-> repaired,
         shots     |-> RepairShots(board.shots, 1, <<>>, valid, D)]

----------------------------------------------------------------------------
(* Sequence build: main.py api_build_sequences, from the LLM answer to the *)
(* stored sequence list.                                                   *)

\* cleaned.append({...}): sequence_id = seq.get("sequence_id") or f"seq_{i:02d}",
\* start and end as safe_float gives them
CleanSeq(seq, i) == [sequence_id |-> SeqIds[i], start |-> seq.start, end |-> seq.end]

\* the loop "for seq in cleaned": one sequence
BuildCapStep(acc, seq, D) ==
    IF seq.start >= D THEN acc
    ELSE IF seq.end > D THEN Append(acc, [seq EXCEPT !.end = D])
    ELSE Append(acc, seq)

RECURSIVE BuildCap(_, _, _, _)
BuildCap(seqs, i, acc, D) ==
    IF i > Len(seqs) THEN acc
    ELSE BuildCap(seqs, i + 1, BuildCapStep(acc, CleanSeq(seqs[i], i), D), D)

----------------------------------------------------------------------------
(* Tighten: main.py api_tighten.                                           *)

\* indices of the shots of one sequence, in list order (by_seq.setdefault)
RECURSIVE GroupOf(_, _, _)
GroupOf(shots, sid, i) ==
    IF i > Len(shots) THEN <<>>
    ELSE IF shots[i].sequence_id = sid
         THEN <<i>> \o GroupOf(shots, sid, i + 1)
         ELSE GroupOf(shots, sid, i + 1)

\* insert index k into the sorted index list ord, after every index whose
\* start is <= the start of k (list.sort is stable)
RECURSIVE InsertByStart(_, _, _)
InsertByStart(shots, ord, k) ==
    IF ord = <<>> THEN <<k>>
    ELSE IF shots[Head(ord)].start <= shots[k].start
         THEN <<Head(ord)>> \o InsertByStart(shots, Tail(ord), k)
         ELSE <<k>> \o ord

RECURSIVE SortByStart(_, _, _)
SortByStart(shots, grp, acc) ==
    IF grp = <<>> THEN acc
    ELSE SortByStart(shots, Tail(grp), InsertByStart(shots, acc, Head(grp)))

\* for i in range(1, len(arr)): push start forward, then bump a negative length
PushStep(shots, p, c) ==
    LET s1 == IF shots[c].start < shots[p].end
              THEN [shots EXCEPT ![c].start = shots[p].end] ELSE shots
    IN  IF s1[c].end < s1[c].start
        THEN [s1 EXCEPT ![c].end = s1[c].start + TightenBump] ELSE s1

RECURSIVE PushPass(_, _, _)
PushPass(shots, ord, i) ==
    IF i > Len(ord) THEN shots
    ELSE PushPass(PushStep(shots, ord[i - 1], ord[i]), ord, i + 1)

\* for i in range(len(arr)-1): close a gap of at most 0.06 s
RECURSIVE ClosePass(_, _, _)
ClosePass(shots, ord, i) ==
    IF i >= Len(ord) THEN shots
    ELSE LET a == ord[i]
             b == ord[i + 1]
             s1 == IF shots[b].start - shots[a].end <= TightenGap
                   THEN [shots EXCEPT ![a].end = shots[b].start] ELSE shots
         IN  ClosePass(s1, ord, i + 1)

TightenGroup(shots, sid) ==
    LET ord == SortByStart(shots, GroupOf(shots, sid, 1), <<>>)
    IN  ClosePass(PushPass(shots, ord, 2), ord, 1)

RECURSIVE TightenAll(_, _)
TightenAll(shots, k) ==
    IF k > Len(SeqIds) THEN shots
    ELSE TightenAll(TightenGroup(shots, SeqIds[k]), k + 1)

Tighten(shots) == TightenAll(shots, 1)

----------------------------------------------------------------------------
(* Coverage: services/storyboard_service.py validate_shots_coverage.       *)
(* It sorts with the same key as api_tighten, so it is placed after it.    *)

Abs(x) == IF x < 0 THEN -x ELSE x

\* abs(...) > 0.1 is an issue: with times in whole seconds, 0.1 s admits
\* no difference of a whole unit
CoverTolerance == 0

\* the issues list of one sequence is empty
SeqCovered(seq, shots) ==
    LET ord == SortByStart(shots, GroupOf(shots, seq.sequence_id, 1), <<>>)
    IN  /\ ord # <<>>
        /\ Abs(shots[ord[1]].start - seq.start) <= CoverTolerance
        /\ Abs(shots[ord[Len(ord)]].end - seq.end) <= CoverTolerance
        /\ \A k \in 1..(Len(ord) - 1) :
               Abs(shots[ord[k + 1]].start - shots[ord[k]].end) <= CoverTolerance

\* validate_shots_coverage(state)["valid"]
validate_shots_coverage(board) ==
    \A i \in 1..Len(board.sequences) : SeqCovered(board.sequences[i], board.shots)

----------------------------------------------------------------------------
(* The retry wrapper and the generation calls of a shot render: main.py    *)
(* retry_on_502, call_img2img_editor and api_render_shot lines 3110-3140.  *)

\* def retry_on_502(func, max_retries: int = 3, delay: float = 2.0)
MaxRetries == 3

RetryDelay == 2

\* a transport failure (requests.exceptions.RequestException) has no status
Transport == 0

\* the answers of the backend: status code and whether the body has an image url
Responses ==
    {[status |-> st, url |-> u] : st \in {200}, u \in BOOLEAN}
        \cup {[status |-> st, url |-> FALSE] : st \in {Transport, 400, 422, 500, 503}}

NoException == [kind |-> "none", code |-> 0]

HttpException(code) == [kind |-> "http", code |-> code]

RequestException == [kind |-> "request", code |-> 0]

PlainException == [kind |-> "other", code |-> 0]

\* do_request of call_img2img_editor: what it raises for an answer
DoRequestRaises(resp) ==
    IF resp.status = Transport THEN RequestException
    ELSE IF resp.status >= 500 THEN HttpException(502)
    ELSE IF resp.status >= 400 THEN HttpException(resp.status)
    ELSE NoException

\* call_img2vid, the function call_img2vid_with_retry wraps: raise_for_status
\* and the transport errors are caught and raised again as Exception, and a
\* body without a video url raises Exception
Img2VidRaises(resp) ==
    IF resp.status = Transport \/ resp.status >= 400 \/ ~resp.url
    THEN PlainException
    ELSE NoException

\* wait = delay * (2 ** attempt)
Backoff(n) == RetryDelay * (2 ^ n)

\* every HTTP error status is taken for a server error
RetriesHttpAny(code, n) == code >= 400 /\ n < MaxRetries - 1

\* retry_on_502: e.status_code >= 500 and attempt < max_retries - 1
RetriesHttp(code, n) == code >= 500 /\ n < MaxRetries - 1

\* retry_on_502: except RequestException: if attempt < max_retries - 1
RetriesTransport(n) == n < MaxRetries - 1

\* retry_on_502: whether the wrapper sleeps and calls func again after e
Retries(e, n) ==
    CASE e.kind = "http" -> RetriesHttp(e.code, n)
      [] e.kind = "request" -> RetriesTransport(n)
      [] OTHER -> FALSE

\* retry_on_502: what the wrapper raises when it gives up on e
WrapperRaises(e) == IF e.kind = "request" THEN HttpException(502) ELSE e

----------------------------------------------------------------------------
(* Request threads: FastAPI runs the "def" handlers of main.py in worker    *)
(* threads, so api_render_shot, api_tighten and api_get_project of one     *)
(* project run concurrently.                                               *)

RenderThreads == {"r1", "r2"}

Threads == RenderThreads \cup {"tighten", "get"}

\* the shot a render thread renders: the two renders are on distinct shots
ShotOf(t) == IF t = "r1" THEN 1 ELSE 2

RenderUrls == <<"/files/projects/t/renders/Sce01_Sho01.png", "/files/projects/t/renders/Sce01_Sho02.png">>

\* how the generation of a render can end (gres of the generation model)
Outcomes == {"done", "error", "t2i_failed", "raised"}

\* the status written before the outcome is known
RenderResultTransient(outcome, i) ==
    IF outcome = "done" THEN RenderDone(RenderUrls[i], "nanobanana_edit")
    ELSE [status |-> "rendering", image_url |-> NoUrl, model |-> "fal-ai/nano-banana-pro"]

\* api_render_shot: render_result, and the error dict of the t2i >= 300 branch
RenderResult(outcome, i) ==
    IF outcome = "done" THEN RenderDone(RenderUrls[i], "nanobanana_edit")
    ELSE RenderError("fal-ai/nano-banana-pro")

\* shot["render"] = ... on the shot with index i
SetRender(state, i, render) == [state EXCEPT !.shots[i].render = render]

\* the project after api_expand_all, created by this release
InitialProject == [NullState EXCEPT !.created_version = VERSION, !.shots = FreshShots]

\* cast_id = f"{role}_{len(state['cast'])+1}", for the role "lead"
CastIds == <<"lead_1", "lead_2", "lead_3", "lead_4">>

\* the names an LLM answer can put in a cast list: cast ids and anything else
AnswerNames == {"lead_1", "lead_2", "someone"}

NoCast == [cast |-> <<>>, character_refs |-> {}, seq_cast |-> <<>>, shot_cast |-> <<>>]

CastIdle == castState = NoCast

ThreadIdle ==
    /\ pc = [t \in Threads |-> "idle"]
    /\ lstate = [t \in Threads |-> NullState]
    /\ rres = [t \in RenderThreads |-> "pending"]
    /\ ret = [t \in Threads |-> "idle"]
    /\ lock = "free"

----------------------------------------------------------------------------
(* Cost ledger: main.py track_cost and services/config.py track_cost (the   *)
(* same statements).  Money is counted in units of 0.00001 USD; the "ts"    *)
(* field of an entry is left out.                                          *)

\* 0.0001 USD: the last decimal that round(x, 4) keeps
Cent4 == 10

\* round(x, 4) of an amount x >= 0; no amount of the model is a tie
Round4(x) == ((x + (Cent4 \div 2)) \div Cent4) * Cent4

\* "Keep last 100 calls"
KeepCalls == 100

Models == {"fal-ai/whisper", "fal-ai/audio-understanding", "fal-ai/flux-2",
           "fal-ai/flux-2/edit", "gpt-4o-mini"}

\* API_COSTS as written in the source
DefaultCosts ==
    [m \in Models |->
        CASE m = "fal-ai/whisper" -> 40
          [] m = "fal-ai/audio-understanding" -> 200
          [] m = "fal-ai/flux-2" -> 1200
          [] m = "fal-ai/flux-2/edit" -> 1200
          [] m = "gpt-4o-mini" -> 100]

\* a unit_price that fetch_live_pricing stored for an endpoint: any number
\* the pricing API returned, here 0.01234 USD
LivePrice == 1234

\* API_COSTS[endpoint_id] = unit_price
LiveCosts == [DefaultCosts EXCEPT !["fal-ai/flux-2"] = LivePrice]

PriceTables == {DefaultCosts, LiveCosts}

NoLedger == [total |-> 0, calls |-> <<>>]

\* cost = API_COSTS.get(resolved_model, ...) * count
CostOf(table, m, count) == table[m] * count

\* {"model": resolved_model, "cost": round(cost, 4), "ts": ...}
CallEntry(table, m, count) == [model |-> m, cost |-> Round4(CostOf(table, m, count))]

\* state["costs"]["calls"][-100:] when there are more than 100
LastCalls(calls) ==
    IF Len(calls) > KeepCalls
    THEN SubSeq(calls, Len(calls) - KeepCalls + 1, Len(calls))
    ELSE calls

\* SESSION_COST["total"] += cost; SESSION_COST["calls"].append(entry)
TrackSession(S, table, m, count) ==
    [total |-> S.total + CostOf(table, m, count),
     calls |-> Append(S.calls, CallEntry(table, m, count))]

\* the "if state is not None" block, on the ledger L = state["costs"]
TrackState(L, table, m, count) ==
    [total |-> Round4(L.total + CostOf(table, m, count)),
     calls |-> LastCalls(Append(L.calls, CallEntry(table, m, count)))]

\* sum(call.cost for call in calls)
RECURSIVE SumCalls(_, _)
SumCalls(calls, i) ==
    IF i > Len(calls) THEN 0 ELSE calls[i].cost + SumCalls(calls, i + 1)

NoCallYet == [n |-> 0, op |-> "none", sent |-> <<>>]

\* the request threads that are inside track_cost at the same time
CostThreads == {"k1", "k2"}

CostThreadsIdle ==
    /\ cpc = [t \in CostThreads |-> "idle"]
    /\ cread = [t \in CostThreads |-> 0]

LedgerIdle ==
    /\ SESSION_COST = NoLedger
    /\ costs = NoLedger
    /\ API_COSTS = DefaultCosts
    /\ tracked = "none"
    /\ lastcall = NoCallYet
    /\ CostThreadsIdle

----------------------------------------------------------------------------
(* Concurrency limits: services/config.py RENDER_SEMAPHORE and              *)
(* VIDEO_SEMAPHORE, services/video_service.py.                             *)

\* asyncio.Semaphore(6); main.py has asyncio.Semaphore(2)
P_image == 6

\* asyncio.Semaphore(8)
P_video == 8

ImageRequests == 1..MaxImageRequests

\* the tasks of one generate_videos_for_shots batch
BatchTasks == 1..MaxBatchTasks

\* direct calls of generate_shot_video, numbered after the batch tasks
SingleCalls == (MaxBatchTasks + 1)..(MaxBatchTasks + MaxSingleCalls)

PoolIdle ==
    /\ ipc = [r \in ImageRequests |-> "idle"]
    /\ RENDER_SEMAPHORE = P_image
    /\ vpc = [v \in BatchTasks \cup SingleCalls |-> "idle"]
    /\ VIDEO_SEMAPHORE = P_video

----------------------------------------------------------------------------
(* Upload cache: services/render_service.py upload_local_ref_to_fal and     *)
(* prewarm_fal_upload_cache.                                               *)

\* the local /files/ URLs of the project's cast refs and scene decors
Assets == {"ref_a", "decor"}

Renders == 1..MaxRenders

\* the references a render hands to the editor, in order
RefsOf == <<"ref_a", "decor">>

NotCached == [asset |-> "none", n |-> 0]

\* before prewarm_fal_upload_cache has run
NotPrewarmed == [done |-> FALSE, assets |-> {}, urls |-> <<>>]

\* the URL fal_client.upload_file returns for the n-th upload of an asset
FalUrl(a, n) == [asset |-> a, n |-> n]

\* "url in cache" and the HEAD of the cached URL answers below 400
CacheHitNever(cache, stale, a) == FALSE

CacheHit(cache, stale, a) == cache[a] # NotCached /\ cache[a] \notin stale

UploadIdle ==
    /\ fal_upload_cache = [a \in Assets |-> NotCached]
    /\ prewarmed = NotPrewarmed
    /\ expired = {}
    /\ added = [a \in Assets |-> 0]
    /\ upc = [r \in Renders |-> [at |-> 1, step |-> "idle"]]

----------------------------------------------------------------------------
(* Render files: main.py download_image_locally and the render result of   *)
(* api_render_shot, with the files the renders folder holds.               *)

\* the URL the image generator answered with for a shot
FalImageUrls == <<"https://fal.media/files/a.png", "https://fal.media/files/b.png">>

\* f"/renders/{rel_path.as_posix()}" of <renders_dir>/Sce01_ShoNN.png
LocalUrls == <<"/renders/projects/t/renders/Sce01_Sho01.png",
               "/renders/projects/t/renders/Sce01_Sho02.png">>

\* how requests.get(url, timeout=60) ends inside download_image_locally
Downloads == {"200", "not_200", "raised"}

\* if r.status_code == 200: local_path.write_bytes(r.content)
DownloadWrites(dl) == dl = "200"

\* download_image_locally(img_url, ..., state=state, friendly_name=...): the
\* URL it returns, the local one unless the request raised
download_image_locally(i, dl) == IF dl = "raised" THEN FalImageUrls[i] ELSE LocalUrls[i]

\* the files of the renders folder after download_image_locally
DownloadFiles(files, i, dl) == IF DownloadWrites(dl) THEN files \cup {LocalUrls[i]} ELSE files

\* render_result: "status":"done" if img_url else "error"
render_result(i, gen, dl) ==
    IF gen = "url" THEN RenderDone(download_image_locally(i, dl), "nanobanana_edit")
    ELSE RenderError("nanobanana_edit")

\* the shot ids with a legacy file <pid>_<shot_id>* among the files
LegacyOf(files) == {ShotIds[i] : i \in {j \in 1..Len(ShotIds) : LegacyUrls[j] \in files}}

\* a render URL resolves to a file of the renders folder
Resolves(url, files) == url \in files

NoFiles == [shots |-> <<>>, files |-> {}, loaded |-> <<>>]

FilesIdle == rfiles = NoFiles

----------------------------------------------------------------------------
(* Export status: update_export_status / get_export_status and the places  *)
(* of export_video and api_export_video that write it.                     *)

\* EXPORT_STATUS.get(project_id, {"status": "idle", "current": 0, "total": 0, "message": ""})
IdleStatus == [status |-> "idle", current |-> 0, total |-> 0, message |-> ""]

\* update_export_status(project_id, status, current, total, message): the
\* record it stores under the project
update_export_status(status, current, total, message) ==
    [status |-> status, current |-> current, total |-> total, message |-> message]

\* the checks ahead of the try block, each of which raises HTTPException
PreChecks == {"FFmpeg not found", "No shots to export", "No rendered shots", "Audio file not found"}

\* the exceptions raised inside the try block, by the handler that catches them
Raised == {"FFmpeg error", "Export failed"}

NoPoll == [after |-> "never", status |-> IdleStatus]

NoExport ==
    [status |-> IdleStatus, pc |-> "idle", i |-> 0, made |-> 0, ended |-> "never",
     polled |-> NoPoll, runs |-> 0]

ExportIdle == exportState = NoExport

----------------------------------------------------------------------------
(* Style lock: main.py api_cast_generate_canonical_refs,                   *)
(* api_clear_style_lock, and the reference images of a shot render         *)
(* (main.py api_render_shot, services/render_service.py                    *)
(* get_shot_ref_images).                                                   *)

StyleCasts == {"lead_1", "lead_2"}

\* ref_a as download_image_locally returns it: the local URL of
\* Cast_<name>_RefA.png, or the generator's URL when the download raised
LocalRefA(c) == IF c = "lead_1" THEN "/renders/projects/t/renders/Cast_lead_1_RefA.png"
                ELSE "/renders/projects/t/renders/Cast_lead_2_RefA.png"

RemoteRefA(c) == IF c = "lead_1" THEN "https://fal.media/files/lead_1_a.png"
                 ELSE "https://fal.media/files/lead_2_a.png"

RefAs(c) == {LocalRefA(c), RemoteRefA(c)}

\* url.startswith("/renders/")
IsLocalUrl(url) == \E c \in StyleCasts : url = LocalRefA(c)

\* one entry of the image_urls sent to the editor: the URL itself, or the
\* URL fal_client.upload_file gave for the local file of that URL
AsGiven(url) == [url |-> url, upload |-> FALSE]

Uploaded(url) == [url |-> url, upload |-> TRUE]

\* a reference as api_render_shot adds it to ref_images: remote URLs as they
\* are, local files uploaded, and nothing when the upload fails
RefImage(url, upload_ok) ==
    IF url = NoUrl THEN <<>>
    ELSE IF ~IsLocalUrl(url) THEN <<AsGiven(url)>>
    ELSE IF upload_ok THEN <<Uploaded(url)>>
    ELSE <<>>

\* the cast members of a shot, in the order of shot["cast"]
ShotCasts == {<<>>, <<"lead_1">>, <<"lead_2">>, <<"lead_1", "lead_2">>}

RECURSIVE CastRefImages(_, _, _)
CastRefImages(cast_ids, char_refs, upload_ok) ==
    IF cast_ids = <<>> THEN <<>>
    ELSE RefImage(char_refs[Head(cast_ids)], upload_ok)
            \o CastRefImages(Tail(cast_ids), char_refs, upload_ok)

\* main.py api_render_shot: "Add style lock image for visual consistency"
StyleRefImages(style_lock_url, upload_ok) == RefImage(style_lock_url, upload_ok)

\* main.py api_render_shot: ref_images, the style lock first and then the
\* refs of the shot's cast (a project without scene renders)
MainRefImages(style_lock_url, cast_ids, char_refs, upload_ok) ==
    StyleRefImages(style_lock_url, upload_ok) \o CastRefImages(cast_ids, char_refs, upload_ok)

RECURSIVE ServiceRefs(_, _, _)
ServiceRefs(cast_ids, char_refs, refs) ==
    IF cast_ids = <<>> THEN refs
    ELSE LET ref_a == char_refs[Head(cast_ids)]
         IN  ServiceRefs(Tail(cast_ids), char_refs,
                         IF ref_a # NoUrl /\ \A k \in 1..Len(refs) : refs[k] # AsGiven(ref_a)
                         THEN Append(refs, AsGiven(ref_a)) ELSE refs)

\* services get_shot_ref_images(shot, state): ref_a of each cast member
get_shot_ref_images(cast_ids, char_refs) == ServiceRefs(cast_ids, char_refs, <<>>)

\* every generation overwrites the style lock with its ref_a
StyleLockAfterAlways(style_lock_image, ref_a) == ref_a

\* "if not fresh_state["project"].get("style_lock_image")": the style lock
\* after the save of a generation whose ref_a is given
StyleLockAfter(style_lock_image, ref_a) ==
    IF style_lock_image = NoUrl THEN ref_a ELSE style_lock_image

NoRefs == [c \in StyleCasts |-> NoUrl]

NoGeneration == [pc |-> "idle", anchor |-> NoUrl, ref_a |-> NoUrl, fresh |-> NoUrl, refs |-> NoRefs]

\* the first generation that saved: its cast and its ref_a
NoFirst == [cast |-> "none", ref_a |-> NoUrl]

NoClear == [pc |-> "idle", refs |-> NoRefs]

NoRender == [impl |-> "none", style |-> NoUrl, image_urls |-> <<>>]

\* a project as api_create_project makes it, with two cast members added
NoStyle ==
    [style_lock_image |-> NoUrl,
     character_refs   |-> NoRefs,
     gen     |-> [c \in StyleCasts |-> NoGeneration],
     lock    |-> "free",
     clear   |-> NoClear,
     first   |-> NoFirst,
     cleared |-> FALSE,
     runs    |-> 0,
     render  |-> NoRender]

StyleIdle == styleState = NoStyle

----------------------------------------------------------------------------
(* Scenes: main.py api_castmatrix_autogen_scenes, api_castmatrix_render_scene, *)
(* api_castmatrix_edit_scene, api_castmatrix_scene_wardrobe_ref and the    *)
(* two lock toggles.                                                       *)

\* scene_id = f"scene_{i+1:02d}"
SceneIds == <<"scene_01", "scene_02">>

\* download_image_locally(..., friendly_name=f"Sce{scene_num}_Decor")
DecorUrl(i) == IF i = 1 THEN "/renders/projects/t/renders/Sce01_Decor.png"
               ELSE "/renders/projects/t/renders/Sce02_Decor.png"

\* download_image_locally(..., friendly_name=f"Sce{scene_num}_Edit")
EditUrl(i) == IF i = 1 THEN "/renders/projects/t/renders/Sce01_Edit.png"
              ELSE "/renders/projects/t/renders/Sce02_Edit.png"

\* download_image_locally(..., friendly_name=f"Sce{scene_num}_{scene_title}_Wardrobe")
WardrobeUrl(i) == IF i = 1 THEN "/renders/projects/t/renders/Sce01_t_Wardrobe.png"
                  ELSE "/renders/projects/t/renders/Sce02_t_Wardrobe.png"

\* the wardrobe texts the LLM gives a scene: none, or a costume
Wardrobes == {"", "red coat"}

\* cleaned.append({...}) of api_castmatrix_autogen_scenes: scene i of the
\* sequence list; a new scene has no lock flag and no wardrobe_ref
CleanScene(sequences, i, wardrobe) ==
    [scene_id |-> SceneIds[i], sequence_id |-> sequences[i], wardrobe |-> wardrobe,
     decor_refs |-> <<>>, decor_locked |-> FALSE,
     wardrobe_ref |-> NoUrl, wardrobe_locked |-> FALSE]

\* the sequences a repair keeps: those for which keep holds, in order
RECURSIVE KeptSeqs(_, _, _)
KeptSeqs(sequences, keep, i) ==
    IF i > Len(sequences) THEN <<>>
    ELSE IF i \in keep THEN <<sequences[i]>> \o KeptSeqs(sequences, keep, i + 1)
    ELSE KeptSeqs(sequences, keep, i + 1)

\* the kinds of scene request that generate an image
SceneJobs == {"render", "edit", "wardrobe_ref"}

NoSceneJob == [pc |-> "idle", kind |-> "none", scene |-> 0, wardrobe |-> "",
               decor_refs |-> <<>>, wardrobe_ref |-> NoUrl]

\* a project with its cast, before the timeline is built
NoScenes ==
    [sequences |-> <<>>, scenes |-> <<>>,
     images |-> [i \in 1..Len(SceneIds) |-> 0],
     job |-> NoSceneJob, ops |-> 0]

SceneIdle == sceneState = NoScenes

----------------------------------------------------------------------------
(* Clip adjustment: services/export_service.py export_video_with_img2vid,  *)
(* the loop "for i, clip in enumerate(video_clips)". Durations are in      *)
(* tenths of a second.                                                     *)

\* "tolerance 0.1s"
ClipTolerance == 1

\* the clip as it goes into the concat: what was done to it, the setpts
\* factor as a fraction, and the duration it plays
Unchanged(a) == [action |-> "none", num |-> 1, den |-> 1, played |-> a]

\* ffmpeg -t target_dur
Trimmed(a, t) == [action |-> "trim", num |-> 1, den |-> 1, played |-> t]

\* speed_factor = actual_dur / target_dur, setpts=PTS/speed_factor: every
\* timestamp is divided by a/t
SpeedAdjusted(a, t) == [action |-> "speed", num |-> a, den |-> t, played |-> (a * t) \div a]

\* every clip that is off by more than the tolerance is speed-adjusted
AdjustClipSpeedFirst(a, t, trim_ok, speed_ok) ==
    IF a > 0 /\ t > 0 /\ Abs(a - t) > ClipTolerance
    THEN IF speed_ok THEN SpeedAdjusted(a, t) ELSE Unchanged(a)
    ELSE Unchanged(a)

\* one pass of the loop: actual_dur a, target_dur t, and whether the trim
\* and the speed command return 0
AdjustClip(a, t, trim_ok, speed_ok) ==
    IF a > 0 /\ t > 0 /\ Abs(a - t) > ClipTolerance
    THEN IF a > t /\ trim_ok THEN Trimmed(a, t)
         ELSE IF speed_ok THEN SpeedAdjusted(a, t)
         ELSE Unchanged(a)
    ELSE Unchanged(a)

NoClip == [a |-> 0, t |-> 0, trim_ok |-> TRUE, speed_ok |-> TRUE, used |-> Unchanged(0),
           pc |-> "none"]

ClipIdle == clipState = NoClip

----------------------------------------------------------------------------
(* Video duration: services/video_service.py call_img2vid and              *)
(* generate_shot_video. Storyboard durations are in tenths of a second,    *)
(* requested and stored durations in milliseconds.                         *)

VideoModels == {"ltx2_i2v", "kling_i2v", "veo31_i2v", "wan_i2v", "hailuo_i2v", "kandinsky5_i2v"}

\* VIDEO_MODELS[model_key]["duration_range"], in seconds
duration_range(model_key) ==
    CASE model_key = "ltx2_i2v"       -> <<3, 10>>
      [] model_key = "kling_i2v"      -> <<5, 10>>
      [] model_key = "veo31_i2v"      -> <<4, 8>>
      [] model_key = "wan_i2v"        -> <<4, 8>>
      [] model_key = "hailuo_i2v"     -> <<5, 10>>
      [] model_key = "kandinsky5_i2v" -> <<5, 5>>

Min(x, y) == IF x <= y THEN x ELSE y

Max(x, y) == IF x >= y THEN x ELSE y

\* duration = max(min_dur, min(max_dur, duration)), in milliseconds for a
\* duration given in tenths of a second
ClampDuration(model_key, tenths) ==
    Max(1000 * duration_range(model_key)[1],
        Min(1000 * duration_range(model_key)[2], 100 * tenths))

\* int(duration) for a duration in milliseconds
IntSeconds(ms) == ms \div 1000

\* payload["num_frames"] = min(481, max(9, int(25 * duration)))
LtxFrames(ms) == Min(481, Max(9, (25 * ms) \div 1000))

\* the duration of the clip the request asks the model for, in
\* milliseconds: frames at 25 fps, whole seconds, the nearest enum value,
\* or the model's fixed length
RequestedDuration(model_key, ms) ==
    CASE model_key = "ltx2_i2v"       -> 40 * LtxFrames(ms)
      [] model_key = "kling_i2v"      -> 1000 * IntSeconds(ms)
      [] model_key = "veo31_i2v"      -> IF IntSeconds(ms) <= 5 THEN 4000
                                         ELSE IF IntSeconds(ms) <= 7 THEN 6000 ELSE 8000
      [] model_key = "wan_i2v"        -> IF IntSeconds(ms) <= 7 THEN 5000
                                         ELSE IF IntSeconds(ms) <= 12 THEN 10000 ELSE 15000
      [] model_key = "hailuo_i2v"     -> 6000
      [] model_key = "kandinsky5_i2v" -> 5000

\* call_img2vid: [asked: what the payload requests, duration: the "duration"
\* of the returned dict]
call_img2vid(model_key, tenths) ==
    LET clamped == ClampDuration(model_key, tenths)
    IN  [asked |-> RequestedDuration(model_key, clamped), duration |-> clamped]

NoVideo == [model |-> "none", target |-> 0, asked |-> 0, duration |-> 0,
            target_duration |-> 0, pc |-> "none"]

VideoIdle == videoState = NoVideo

----------------------------------------------------------------------------
(* Target sizing: main.py target_sequences_and_shots, the numbers          *)
(* api_build_sequences puts into the LLM prompt.                           *)

SHOTS_PER_180S == 70

SEQ_MIN == 6

SEQ_MAX == 10

SHOTS_PER_SEQ_MIN == 5

SHOTS_PER_SEQ_MAX == 8

\* clamp(x, lo, hi) = max(lo, min(hi, x))
clamp(x, lo, hi) == IF x < lo THEN lo ELSE IF x > hi THEN hi ELSE x

\* Python's round(p / q) for p >= 0, q > 0: to the nearest integer, a tie
\* goes to the even one
Round(p, q) ==
    LET f == p \div q
        r == p % q
    IN  IF 2 * r < q THEN f
        ELSE IF 2 * r > q THEN f + 1
        ELSE IF f % 2 = 0 THEN f ELSE f + 1

\* target_sequences_and_shots(duration_sec) = <<seq_count, target_shots>>,
\* duration_sec in whole seconds
target_sequences_and_shots(duration_sec) ==
    LET d     == IF duration_sec > 1 THEN duration_sec ELSE 180
        shots == clamp(Round(d * SHOTS_PER_180S, 180), 20, 250)
        count == clamp(Round(2 * shots, 13), SEQ_MIN, SEQ_MAX)
    IN  IF shots < SHOTS_PER_SEQ_MIN * count
        THEN <<clamp(Round(shots, SHOTS_PER_SEQ_MIN), SEQ_MIN, SEQ_MAX), shots>>
        ELSE IF shots > SHOTS_PER_SEQ_MAX * count
        THEN <<clamp(Round(shots, SHOTS_PER_SEQ_MAX), SEQ_MIN, SEQ_MAX), shots>>
        ELSE <<count, shots>>

----------------------------------------------------------------------------
(* Cast references of a shot render: ref_a and ref_b of each cast member   *)
(* (main.py api_render_shot "Get BOTH cast member reference images",       *)
(* services/render_service.py get_shot_ref_images).                        *)

\* ref_b as download_image_locally returns it: the local URL of
\* Cast_<name>_RefB.png
LocalRefB(c) == IF c = "lead_1" THEN "/renders/projects/t/renders/Cast_lead_1_RefB.png"
                ELSE "/renders/projects/t/renders/Cast_lead_2_RefB.png"

\* shot["camera_language"] as the shot expansion stored it
CameraLanguages == {"tight close-up on hands", "portrait, eyes to camera", "wide tracking shot"}

\* the camera languages that contain one of close-up, closeup, portrait,
\* head shot, face, eyes
CloseupLanguages == {"tight close-up on hands", "portrait, eyes to camera"}

NoCharRefs == [c \in StyleCasts |-> [ref_a |-> NoUrl, ref_b |-> NoUrl]]

\* one of ref_a, ref_b as api_render_shot adds it to ref_images: the local
\* file is uploaded, and nothing is added when the upload raises
CharRefImage(ref_url, upload_ok) ==
    IF ref_url = NoUrl THEN <<>>
    ELSE IF upload_ok THEN <<Uploaded(ref_url)>>
    ELSE <<>>

\* main.py api_render_shot, "for cast_id in cast_ids[:2]": "Add ref_a" and
\* then "Add ref_b" of every cast member, whatever the shot's camera_language
RECURSIVE MainCastRefs(_, _, _)
MainCastRefs(cast_ids, char_refs, upload_ok) ==
    IF cast_ids = <<>> THEN <<>>
    ELSE CharRefImage(char_refs[Head(cast_ids)].ref_a, upload_ok)
            \o CharRefImage(char_refs[Head(cast_ids)].ref_b, upload_ok)
            \o MainCastRefs(Tail(cast_ids), char_refs, upload_ok)

\* services get_shot_ref_images: "Cast refs (ref_a for each cast member)"
RefAOf(char_refs) == [c \in StyleCasts |-> char_refs[c].ref_a]

NoRefRender == [impl |-> "none", camera_language |-> "", cast |-> <<>>,
                refs |-> NoCharRefs, upload_ok |-> TRUE, image_urls |-> <<>>]

\* a project with two cast members and no generated references
NoRefState == [character_refs |-> NoCharRefs, render |-> NoRefRender]

RefsIdle == refState = NoRefState

----------------------------------------------------------------------------
(* Project locks: get_project_lock (main.py, services/config.py) and the   *)
(* "with get_project_lock(project_id):" sections of the handlers.          *)

LockThreads == {"t1", "t2", "t3"}

LockProjects == {"p1", "p2"}

\* an entry of PROJECT_LOCKS is absent, or it is one threading.Lock object:
\* the empty set, or the set of that one lock
NoLock == {}

\* entering "with PROJECT_LOCKS_LOCK:" without waiting for its holder
MapLockEntryUnguarded(holder) == TRUE

\* "with PROJECT_LOCKS_LOCK:" is entered when no thread holds the mutex
MapLockEntry(holder) == holder = "free"

NoLockThread == [pc |-> "idle", project_id |-> "p1", first |-> FALSE, got |-> NoLock]

\* a process after import: PROJECT_LOCKS = {}, nothing held
NoLocks ==
    [PROJECT_LOCKS      |-> [p \in LockProjects |-> NoLock],
     PROJECT_LOCKS_LOCK |-> "free",
     created  |-> 0,
     holder   |-> [l \in 1..MaxLockCalls |-> "free"],
     returned |-> [p \in LockProjects |-> {}],
     calls    |-> 0,
     th       |-> [t \in LockThreads |-> NoLockThread]]

LocksIdle == lockState = NoLocks

----------------------------------------------------------------------------
(* Renders in flight: main.py api_render_shot against api_expand_all,      *)
(* api_expand_sequence and api_build_sequences on the same project.        *)

\* "render": {"status":"none",...} of a new shot; made: the render's own
\* mark of the shot definition it was generated from
FlightNoRender == [status |-> "none", image_url |-> NoUrl, made |-> 0]

\* a shot as an expansion stores it: shot_id = f"{seq_id}_sh{j:02d}";
\* made numbers the expansion that wrote this definition of the shot
FlightShot(j, made) == [shot_id |-> ShotIds[j], made |-> made, render |-> FlightNoRender]

\* all_shots of an expansion whose LLM answer holds n shots
ExpandedShots(n, made) == [j \in 1..n |-> FlightShot(j, made)]

\* next((s for s in fresh_shots if s.get("shot_id") == shot_id), None):
\* the index of the shot, 0 for None
FindShot(shots, shot_id) ==
    IF \E i \in 1..Len(shots) : shots[i].shot_id = shot_id
    THEN CHOOSE i \in 1..Len(shots) :
             /\ shots[i].shot_id = shot_id
             /\ \A j \in 1..(i - 1) : shots[j].shot_id # shot_id
    ELSE 0

\* render_result: "done" with the local URL of the image, or "error"
FlightResult(shot_id, ok, made) ==
    IF ok
    THEN [status |-> "done",
          image_url |-> LocalUrls[CHOOSE i \in 1..Len(ShotIds) : ShotIds[i] = shot_id],
          made |-> made]
    ELSE [status |-> "error", image_url |-> NoUrl, made |-> made]

\* the locked section of api_render_shot on the shots of fresh_state: the
\* shots that are persisted when the section ends
RenderStore(shots, created_version, shot_id, result) ==
    LET i == FindShot(shots, shot_id)
    IN  IF i = 0 THEN shots
        ELSE IF SaveRefused([created_version |-> created_version], FALSE) THEN shots
        ELSE [shots EXCEPT ![i].render = result]

NoFlightRender == [pc |-> "idle", shot_id |-> "", made |-> 0, result |-> FlightNoRender,
                   returned |-> FlightNoRender]

\* a project with its storyboard expanded once
NoFlight ==
    [created_version |-> VERSION,
     shots  |-> ExpandedShots(Len(ShotIds), 0),
     expansions |-> 0,
     render |-> NoFlightRender,
     ops    |-> 0]

FlightIdle == flightState = NoFlight

----------------------------------------------------------------------------
(* Export timeline: services/export_service.py export_video_with_img2vid   *)
(* (export_video and main.py api_export_video collect their clips the same *)
(* way), from the rendered shots to the concat list. Times are in tenths   *)
(* of a second.                                                            *)

\* the lengths of a storyboard shot
ShotLengths == {20, 30}

\* render.video.duration of a generated clip whose target is t: the target
\* itself, or the 5 s the model made
ActualDurations(t) == {t, 50}

\* rendered_shots sorted by start: shots that follow each other without a
\* gap from 0.0, of the given lengths
RECURSIVE Contiguous(_, _, _)
Contiguous(lengths, k, at) ==
    IF k > Len(lengths) THEN <<>>
    ELSE <<[start |-> at, end |-> at + lengths[k]]>>
            \o Contiguous(lengths, k + 1, at + lengths[k])

\* video_clips.append({"path", "shot", "duration": end - start, ...})
VideoClip(shots, i) == [shot |-> i, duration |-> shots[i].end - shots[i].start, played |-> 0]

\* the concat demuxer plays the listed files one after the other: the time
\* at which the k-th listed clip starts
RECURSIVE StartsAt(_, _)
StartsAt(clips, k) ==
    IF k <= 1 THEN 0 ELSE StartsAt(clips, k - 1) + clips[k - 1].played

NoTimeline == [shots |-> <<>>, i |-> 0, video_clips |-> <<>>, j |-> 0, pc |-> "none"]

TimelineIdle == timelineState = NoTimeline

MoreIdle == FilesIdle /\ ExportIdle /\ StyleIdle /\ SceneIdle /\ ClipIdle /\ VideoIdle /\ RefsIdle /\ LocksIdle /\ FlightIdle /\ TimelineIdle

LateIdle == LedgerIdle /\ PoolIdle /\ UploadIdle /\ MoreIdle

----------------------------------------------------------------------------
(* Store model: one caller holding a state dict S saves and loads it.      *)

RenderChoices == {RenderNone, RenderDone("/renders/projects/t/renders/Sce01_Sho01.png", "nanobanana_edit"),
                  RenderError("fal-ai/nano-banana-pro")}

StoreStates ==
    {[created_version |-> v, updated_at |-> 0, project_location |-> l,
      shots |-> [i \in 1..2 |-> [FreshShots[i] EXCEPT !.render = r[i]]]] :
        v \in Versions, l \in BOOLEAN, r \in [1..2 -> RenderChoices]}

TimeIdle ==
    /\ sb = [sequences |-> <<>>, shots |-> <<>>]
    /\ duration = 0
    /\ applied = <<>>
    /\ sb0 = sb

StoreIdle ==
    /\ mem = NullState
    /\ loaded = LoadResult(0, NullState)
    /\ last = <<>>

DiskIdle ==
    /\ file = NoFile
    /\ locfile = NoFile
    /\ orphans = {}
    /\ now = 1

GenIdle ==
    /\ gpc = "idle"
    /\ attempt = 0
    /\ waits = <<>>
    /\ reqs = <<>>
    /\ gres = "pending"
    /\ exc = NoException

CoreIdle ==
    /\ TimeIdle
    /\ DiskIdle
    /\ StoreIdle
    /\ GenIdle
    /\ ThreadIdle
    /\ CastIdle

EarlierIdle == CoreIdle /\ LedgerIdle /\ PoolIdle /\ UploadIdle

NotFilesIdle == EarlierIdle /\ ExportIdle /\ StyleIdle /\ SceneIdle /\ ClipIdle /\ VideoIdle /\ RefsIdle /\ LocksIdle /\ FlightIdle /\ TimelineIdle

NotExportIdle == EarlierIdle /\ FilesIdle /\ StyleIdle /\ SceneIdle /\ ClipIdle /\ VideoIdle /\ RefsIdle /\ LocksIdle /\ FlightIdle /\ TimelineIdle

NotStyleIdle == EarlierIdle /\ FilesIdle /\ ExportIdle /\ SceneIdle /\ ClipIdle /\ VideoIdle /\ RefsIdle /\ LocksIdle /\ FlightIdle /\ TimelineIdle

NotSceneIdle == EarlierIdle /\ FilesIdle /\ ExportIdle /\ StyleIdle /\ ClipIdle /\ VideoIdle /\ RefsIdle /\ LocksIdle /\ FlightIdle /\ TimelineIdle

NotClipIdle == EarlierIdle /\ FilesIdle /\ ExportIdle /\ StyleIdle /\ SceneIdle /\ VideoIdle /\ RefsIdle /\ LocksIdle /\ FlightIdle /\ TimelineIdle

NotVideoIdle == EarlierIdle /\ FilesIdle /\ ExportIdle /\ StyleIdle /\ SceneIdle /\ ClipIdle /\ RefsIdle /\ LocksIdle /\ FlightIdle /\ TimelineIdle

NotRefsIdle == EarlierIdle /\ FilesIdle /\ ExportIdle /\ StyleIdle /\ SceneIdle /\ ClipIdle /\ VideoIdle /\ LocksIdle /\ FlightIdle /\ TimelineIdle

NotLocksIdle == EarlierIdle /\ FilesIdle /\ ExportIdle /\ StyleIdle /\ SceneIdle /\ ClipIdle /\ VideoIdle /\ RefsIdle /\ FlightIdle /\ TimelineIdle

NotFlightIdle == EarlierIdle /\ FilesIdle /\ ExportIdle /\ StyleIdle /\ SceneIdle /\ ClipIdle /\ VideoIdle /\ RefsIdle /\ LocksIdle /\ TimelineIdle

NotTimelineIdle == EarlierIdle /\ FilesIdle /\ ExportIdle /\ StyleIdle /\ SceneIdle /\ ClipIdle /\ VideoIdle /\ RefsIdle /\ LocksIdle /\ FlightIdle

InitStore ==
    /\ mem \in StoreStates
    /\ file \in {NoFile, Written([NullState EXCEPT !.created_version = VERSION,
                                                   !.shots = FreshShots])}
    /\ locfile = NoFile
    /\ orphans \in SUBSET ShotIdSet
    /\ now = 1
    /\ loaded = LoadResult(0, NullState)
    /\ last = <<>>
    /\ TimeIdle
    /\ GenIdle
    /\ ThreadIdle
    /\ CastIdle
    /\ LateIdle

StoreCall(op, force) == [op |-> op, force |-> force, arg |-> mem]

\* main.py save_project(state, force=force)
StoreSave(force) ==
    /\ Len(last) < MaxStoreOps
    /\ IF SaveRefused(mem, force)
       THEN UNCHANGED <<mem, file, now>>
       ELSE /\ mem' = Stamp(mem, now)
            /\ file' = Written(mem')
            /\ now' = now + 1
    /\ last' = Append(last, StoreCall("save", force))
    /\ UNCHANGED <<locfile, orphans, loaded>>
    /\ UNCHANGED <<timeVars, genVars, threadVars, castState, lateVars>>

\* services/project_service.py save_project(state, force=force)
StoreSvcSave(force) ==
    /\ Len(last) < MaxStoreOps
    /\ mem' = SvcStamp(mem, now)
    /\ locfile' = IF mem.project_location THEN Written(mem') ELSE locfile
    /\ now' = now + 1
    /\ last' = Append(last, StoreCall("svc_save", force))
    /\ UNCHANGED <<file, orphans, loaded>>
    /\ UNCHANGED <<timeVars, genVars, threadVars, castState, lateVars>>

\* main.py load_project(pid)
StoreLoad ==
    /\ Len(last) < MaxStoreOps
    /\ LET out == load_project(file, orphans, now)
       IN  /\ loaded' = out.res
           /\ file' = out.file
           /\ now' = IF out.wrote THEN now + 1 ELSE now
    /\ last' = Append(last, StoreCall("load", FALSE))
    /\ UNCHANGED <<mem, locfile, orphans>>
    /\ UNCHANGED <<timeVars, genVars, threadVars, castState, lateVars>>

NextStore ==
    \/ \E force \in BOOLEAN : StoreSave(force)
    \/ \E force \in BOOLEAN : StoreSvcSave(force)
    \/ StoreLoad

SpecStore == InitStore /\ [][NextStore]_vars

----------------------------------------------------------------------------
(* Generation model: one wrapped call, or the generation calls of one     *)
(* shot render.                                                            *)

InitGen ==
    /\ gpc = "start"
    /\ attempt = 0
    /\ waits = <<>>
    /\ reqs = <<>>
    /\ gres = "pending"
    /\ exc = NoException
    /\ TimeIdle
    /\ DiskIdle
    /\ StoreIdle
    /\ ThreadIdle
    /\ CastIdle
    /\ LateIdle

Sent(endpoint, resp) == [endpoint |-> endpoint, status |-> resp.status, url |-> resp.url]

\* api_render_shot: "if ref_images:" picks the img2img editor, else t2i
GenStart(refs) ==
    /\ gpc = "start"
    /\ gpc' = IF refs THEN "img2img" ELSE "t2i"
    /\ UNCHANGED <<attempt, waits, reqs, gres, exc>>
    /\ UNCHANGED <<timeVars, diskVars, storeVars, threadVars, castState, lateVars>>

\* generate_shot_video: video_result = call_img2vid_with_retry(...)
VidStart ==
    /\ gpc = "start"
    /\ gpc' = "img2vid"
    /\ UNCHANGED <<attempt, waits, reqs, gres, exc>>
    /\ UNCHANGED <<timeVars, diskVars, storeVars, threadVars, castState, lateVars>>

\* one iteration of the wrapper's loop around do_request of
\* call_img2img_editor, up to the except clause of api_render_shot
Img2ImgAttempt(resp) ==
    /\ gpc = "img2img"
    /\ reqs' = Append(reqs, Sent("img2img", resp))
    /\ LET e == DoRequestRaises(resp)
       IN  IF e = NoException
           THEN \* r returned: the image url, or HTTPException(502) "no image url"
                /\ gpc' = IF resp.url THEN "end" ELSE "t2i"
                /\ gres' = IF resp.url THEN "done" ELSE gres
                /\ exc' = IF resp.url THEN NoException ELSE HttpException(502)
                /\ UNCHANGED <<attempt, waits>>
           ELSE IF Retries(e, attempt)
           THEN /\ waits' = Append(waits, Backoff(attempt))
                /\ attempt' = attempt + 1
                /\ UNCHANGED <<gpc, gres, exc>>
           ELSE \* raised out of the wrapper: "img2img failed, falling back to t2i"
                /\ gpc' = "t2i"
                /\ exc' = WrapperRaises(e)
                /\ UNCHANGED <<attempt, waits, gres>>
    /\ UNCHANGED <<timeVars, diskVars, storeVars, threadVars, castState, lateVars>>

\* one iteration of the wrapper's loop around call_img2vid
Img2VidAttempt(resp) ==
    /\ gpc = "img2vid"
    /\ reqs' = Append(reqs, Sent("img2vid", resp))
    /\ LET e == Img2VidRaises(resp)
       IN  IF e = NoException
           THEN /\ gpc' = "end"
                /\ gres' = "done"
                /\ UNCHANGED <<attempt, waits, exc>>
           ELSE IF Retries(e, attempt)
           THEN /\ waits' = Append(waits, Backoff(attempt))
                /\ attempt' = attempt + 1
                /\ UNCHANGED <<gpc, gres, exc>>
           ELSE /\ gpc' = "end"
                /\ gres' = "raised"
                /\ exc' = WrapperRaises(e)
                /\ UNCHANGED <<attempt, waits>>
    /\ UNCHANGED <<timeVars, diskVars, storeVars, threadVars, castState, lateVars>>

\* api_render_shot: the single requests.post to the t2i endpoint
T2iRequest(resp) ==
    /\ gpc = "t2i"
    /\ reqs' = Append(reqs, Sent("t2i", resp))
    /\ gpc' = "end"
    /\ gres' = IF resp.status = Transport THEN "raised"
              ELSE IF resp.status >= 300 THEN "t2i_failed"
              ELSE IF resp.url THEN "done" ELSE "error"
    /\ UNCHANGED <<attempt, waits, exc>>
    /\ UNCHANGED <<timeVars, diskVars, storeVars, threadVars, castState, lateVars>>

NextGen ==
    \/ \E refs \in BOOLEAN : GenStart(refs)
    \/ VidStart
    \/ \E resp \in Responses : Img2ImgAttempt(resp)
    \/ \E resp \in Responses : Img2VidAttempt(resp)
    \/ \E resp \in Responses : T2iRequest(resp)

SpecGen == InitGen /\ [][NextGen]_vars

----------------------------------------------------------------------------
(* Project model: concurrent requests on one project file.                 *)

InitThreads(running) ==
    /\ pc = [t \in Threads |-> IF t \in running THEN "start" ELSE "idle"]
    /\ lstate = [t \in Threads |-> NullState]
    /\ rres = [t \in RenderThreads |-> "pending"]
    /\ ret = [t \in Threads |-> IF t \in running THEN "running" ELSE "idle"]
    /\ lock = "free"
    /\ file = Written(InitialProject)
    /\ locfile = NoFile
    /\ orphans = {}
    /\ now = 1
    /\ TimeIdle
    /\ StoreIdle
    /\ GenIdle
    /\ CastIdle
    /\ LateIdle

InitRenders == InitThreads(RenderThreads)

InitProject == InitThreads(Threads)

Others == <<timeVars, storeVars, genVars, locfile, orphans, now, castState, lateVars>>

\* the handler raised: json.loads on an incomplete file, or the backend call
Raise(t, error) ==
    /\ pc' = [pc EXCEPT ![t] = "done"]
    /\ ret' = [ret EXCEPT ![t] = error]

\* save_project(state) entered: the version gate, updated_at, then write_text
CallSave(t, state) ==
    IF SaveRefused(state, FALSE)
    THEN /\ pc' = [pc EXCEPT ![t] = "done"]
         /\ ret' = [ret EXCEPT ![t] = "ok"]
         /\ lock' = IF lock = t THEN "free" ELSE lock
         /\ UNCHANGED lstate
    ELSE /\ pc' = [pc EXCEPT ![t] = "open"]
         /\ lstate' = [lstate EXCEPT ![t] = Stamp(state, now)]
         /\ UNCHANGED <<ret, lock>>

\* api_render_shot: state = load_project(project_id), outside the lock
RenderLoad(t) ==
    /\ t \in RenderThreads
    /\ pc[t] = "start"
    /\ IF Parses(file.text)
       THEN /\ lstate' = [lstate EXCEPT ![t] = Parse(file.text)]
            /\ pc' = [pc EXCEPT ![t] = "generate"]
            /\ UNCHANGED ret
       ELSE Raise(t, "JSONDecodeError") /\ UNCHANGED lstate
    /\ UNCHANGED <<rres, lock, file, Others>>

\* api_render_shot from the prompt to render_result: the generation ends
\* with an image, without one, with a t2i status >= 300 (the stale state is
\* saved at once, outside the lock) or with an exception
RenderGenerate(t, outcome) ==
    /\ t \in RenderThreads
    /\ pc[t] = "generate"
    /\ rres' = [rres EXCEPT ![t] = outcome]
    /\ CASE outcome = "raised" -> Raise(t, "RequestException") /\ UNCHANGED <<lstate, lock>>
         [] outcome = "t2i_failed" ->
                CallSave(t, SetRender(lstate[t], ShotOf(t), RenderResult(outcome, ShotOf(t))))
         [] OTHER -> /\ pc' = [pc EXCEPT ![t] = "acquire"]
                     /\ UNCHANGED <<lstate, ret, lock>>
    /\ UNCHANGED <<file, Others>>

\* api_render_shot: with get_project_lock(project_id):
RenderAcquire(t) ==
    /\ t \in RenderThreads
    /\ pc[t] = "acquire"
    /\ lock = "free"
    /\ lock' = t
    /\ pc' = [pc EXCEPT ![t] = "reload"]
    /\ UNCHANGED <<lstate, rres, ret, file, Others>>

\* api_render_shot under the lock: fresh_state = load_project(project_id),
\* fresh_shot["render"] = render_result, save_project(fresh_state)
RenderReload(t) ==
    /\ t \in RenderThreads
    /\ pc[t] = "reload"
    /\ IF Parses(file.text)
       THEN CallSave(t, SetRender(Parse(file.text), ShotOf(t), RenderResult(rres[t], ShotOf(t))))
       ELSE Raise(t, "JSONDecodeError") /\ lock' = "free" /\ UNCHANGED lstate
    /\ UNCHANGED <<rres, file, Others>>

\* api_tighten: load_project, the two passes on every sequence, save_project
TightenLoad ==
    /\ pc["tighten"] = "start"
    /\ IF Parses(file.text)
       THEN CallSave("tighten", [Parse(file.text) EXCEPT !.shots = Tighten(@)])
       ELSE Raise("tighten", "JSONDecodeError") /\ UNCHANGED <<lstate, lock>>
    /\ UNCHANGED <<rres, file, Others>>

\* api_get_project: return load_project(project_id)
GetProject ==
    /\ pc["get"] = "start"
    /\ IF Parses(file.text)
       THEN /\ lstate' = [lstate EXCEPT !["get"] = Parse(file.text)]
            /\ pc' = [pc EXCEPT !["get"] = "done"]
            /\ ret' = [ret EXCEPT !["get"] = "ok"]
       ELSE Raise("get", "JSONDecodeError") /\ UNCHANGED lstate
    /\ UNCHANGED <<rres, lock, file, Others>>

\* save_project, Path.write_text: open(path, "w") truncates the file
SaveOpen(t) ==
    /\ pc[t] = "open"
    /\ file' = Truncated(file)
    /\ pc' = [pc EXCEPT ![t] = "write"]
    /\ UNCHANGED <<lstate, rres, ret, lock, Others>>

\* save_project, Path.write_text: the text is written and the file closed;
\* the handler returns, leaving the with block if it is in one
SaveWrite(t) ==
    /\ pc[t] = "write"
    /\ file' = Written(lstate[t])
    /\ pc' = [pc EXCEPT ![t] = "done"]
    /\ ret' = [ret EXCEPT ![t] = "ok"]
    /\ lock' = IF lock = t THEN "free" ELSE lock
    /\ UNCHANGED <<lstate, rres, Others>>

NextRenders ==
    \/ \E t \in RenderThreads : RenderLoad(t)
    \/ \E t \in RenderThreads, outcome \in Outcomes : RenderGenerate(t, outcome)
    \/ \E t \in RenderThreads : RenderAcquire(t)
    \/ \E t \in RenderThreads : RenderReload(t)
    \/ \E t \in Threads : SaveOpen(t)
    \/ \E t \in Threads : SaveWrite(t)

NextProject ==
    \/ NextRenders
    \/ TightenLoad
    \/ GetProject

SpecRenders == InitRenders /\ [][NextRenders]_vars

SpecProject == InitProject /\ [][NextProject]_vars

----------------------------------------------------------------------------
(* Timeline model: one project whose storyboard an LLM produced, operated  *)
(* on by the repair and tighten handlers.                                  *)

SeqRec(maxT) == [sequence_id : SeqIdSet, start : 0..maxT, end : 0..maxT]

ShotRec(maxT) == [shot_id : {"sh"}, sequence_id : SeqIdSet,
                  start : 0..maxT, end : 0..maxT]

\* shot_id is made unique by position
Number(shots) == [i \in 1..Len(shots) |-> [shots[i] EXCEPT !.shot_id = i]]

ShotLists(maxT, n) ==
    UNION {[1..k -> ShotRec(maxT)] : k \in 0..n}

\* shots that validate_shot accepts: start < end
ValidShotLists(maxT, n) ==
    UNION {[1..k -> {r \in ShotRec(maxT) : r.start < r.end}] : k \in 0..n}

InitRepair ==
    /\ duration \in 1..RepairMaxT
    /\ \E s1 \in [sequence_id : {"seq_01"}, start : 0..RepairMaxT, end : 0..RepairMaxT],
          s2 \in [sequence_id : {"seq_02"}, start : 0..RepairMaxT, end : 0..RepairMaxT],
          n \in 0..2, shots \in ShotLists(RepairMaxT, RepairMaxShots) :
            sb = [sequences |-> SubSeq(<<s1, s2>>, 1, n), shots |-> Number(shots)]
    /\ sb0 = sb
    /\ applied = <<>>
    /\ DiskIdle
    /\ StoreIdle
    /\ GenIdle
    /\ ThreadIdle
    /\ CastIdle
    /\ LateIdle

InitTighten ==
    /\ duration = TightenMaxT
    /\ \E shots \in ValidShotLists(TightenMaxT, TightenMaxShots) :
            sb = [sequences |-> <<[sequence_id |-> "seq_01", start |-> 0, end |-> TightenMaxT],
                                  [sequence_id |-> "seq_02", start |-> 0, end |-> TightenMaxT]>>,
                  shots |-> Number(shots)]
    /\ sb0 = sb
    /\ applied = <<>>
    /\ DiskIdle
    /\ StoreIdle
    /\ GenIdle
    /\ ThreadIdle
    /\ CastIdle
    /\ LateIdle

\* main.py api_repair_sequences: 400 when there are no sequences
api_repair_sequences ==
    /\ Len(applied) < MaxOps
    /\ sb.sequences # <<>>
    /\ sb' = repair_timeline(sb, duration)
    /\ applied' = Append(applied, "repair")
    /\ UNCHANGED <<duration, sb0>>
    /\ UNCHANGED <<diskVars, storeVars, genVars, threadVars, castState, lateVars>>

\* main.py api_tighten: 400 when there are no shots
api_tighten ==
    /\ Len(applied) < MaxOps
    /\ sb.shots # <<>>
    /\ sb' = [sb EXCEPT !.shots = Tighten(sb.shots)]
    /\ applied' = Append(applied, "tighten")
    /\ UNCHANGED <<duration, sb0>>
    /\ UNCHANGED <<diskVars, storeVars, genVars, threadVars, castState, lateVars>>

NextRepair == api_repair_sequences

NextTighten == api_tighten

SpecRepair == InitRepair /\ [][NextRepair]_vars

SpecTighten == InitTighten /\ [][NextTighten]_vars

----------------------------------------------------------------------------
(* Build model: audio upload, sequence build from an LLM answer, repair.   *)

\* one sequence of the LLM answer: start and end are whatever numbers it wrote
LlmSeq == [start : -1..(BuildMaxT + 1), end : -1..(BuildMaxT + 1)]

\* sequences = sb.get("sequences"): a non-empty list
LlmAnswers == UNION {[1..k -> LlmSeq] : k \in 1..Len(SeqIds)}

InitBuild ==
    /\ duration \in 1..BuildMaxT
    /\ sb = [sequences |-> <<>>, shots |-> <<>>]
    /\ sb0 = sb
    /\ applied = <<>>
    /\ DiskIdle
    /\ StoreIdle
    /\ GenIdle
    /\ ThreadIdle
    /\ CastIdle
    /\ LateIdle

\* main.py api_build_sequences: clean, cap to the audio duration, store
api_build_sequences(answer) ==
    /\ Len(applied) < MaxOps
    /\ sb' = [sequences |-> BuildCap(answer, 1, <<>>, duration), shots |-> <<>>]
    /\ applied' = Append(applied, "build")
    /\ UNCHANGED <<duration, sb0>>
    /\ UNCHANGED <<diskVars, storeVars, genVars, threadVars, castState, lateVars>>

\* main.py api_audio: audio_dna is replaced, the storyboard is left as it is
api_audio(d) ==
    /\ Len(applied) < MaxOps
    /\ duration' = d
    /\ applied' = Append(applied, "audio")
    /\ UNCHANGED <<sb, sb0>>
    /\ UNCHANGED <<diskVars, storeVars, genVars, threadVars, castState, lateVars>>

NextBuild ==
    \/ \E answer \in LlmAnswers : api_build_sequences(answer)
    \/ \E d \in 1..BuildMaxT : api_audio(d)
    \/ api_repair_sequences

SpecBuild == InitBuild /\ [][NextBuild]_vars

----------------------------------------------------------------------------
(* Cast model: cast members are added and deleted while sequences and      *)
(* shots that name them are built.                                         *)

InitCast ==
    /\ castState = NoCast
    /\ TimeIdle
    /\ DiskIdle
    /\ StoreIdle
    /\ GenIdle
    /\ ThreadIdle
    /\ LateIdle

\* {c["cast_id"] for c in state["cast"]}
CastIdsOf(cs) == {cs.cast[i] : i \in 1..Len(cs.cast)}

NotCast == <<timeVars, diskVars, storeVars, genVars, threadVars, lateVars>>

\* main.py api_cast: state["cast"].append(visual_dna)
api_cast ==
    /\ Len(castState.cast) < MaxCast
    /\ castState' = [castState EXCEPT !.cast = Append(@, CastIds[Len(@) + 1])]
    /\ UNCHANGED NotCast

\* main.py api_cast_delete: 404 when no member has the id
api_cast_delete(cast_id) ==
    /\ cast_id \in CastIdsOf(castState)
    /\ castState' = [castState EXCEPT
                        !.cast = SelectSeq(@, LAMBDA c : c # cast_id),
                        !.character_refs = @ \ {cast_id}]
    /\ UNCHANGED NotCast

\* main.py api_cast_generate_canonical_refs: character_refs[cast_id] = {...}
api_cast_generate_canonical_refs(cast_id) ==
    /\ cast_id \in CastIdsOf(castState)
    /\ castState' = [castState EXCEPT !.character_refs = @ \cup {cast_id}]
    /\ UNCHANGED NotCast

\* main.py api_build_sequences, the cast list of the stored sequence:
\* [cid for cid in (seq.get("cast") or []) if cid in valid_cast]; shots = []
BuildSequencesCast(names) ==
    /\ castState.cast # <<>>
    /\ castState' = [castState EXCEPT !.seq_cast = <<names \cap CastIdsOf(castState)>>,
                                      !.shot_cast = <<>>]
    /\ UNCHANGED NotCast

\* main.py api_expand_all, the cast list of the stored shot: the names of
\* the answer that name_to_id resolves
ExpandAllCast(names) ==
    /\ castState.seq_cast # <<>>
    /\ castState' = [castState EXCEPT !.shot_cast = <<names \cap CastIdsOf(castState)>>]
    /\ UNCHANGED NotCast

NextCast ==
    \/ api_cast
    \/ \E cast_id \in AnswerNames : api_cast_delete(cast_id)
    \/ \E cast_id \in AnswerNames : api_cast_generate_canonical_refs(cast_id)
    \/ \E names \in SUBSET AnswerNames : BuildSequencesCast(names)
    \/ \E names \in SUBSET AnswerNames : ExpandAllCast(names)

SpecCast == InitCast /\ [][NextCast]_vars

----------------------------------------------------------------------------
(* Ledger model: one process tracks call after call of one model, with or   *)
(* without a project state whose ledger the caller then saves.             *)

InitLedger ==
    /\ SESSION_COST = NoLedger
    /\ costs = NoLedger
    /\ API_COSTS \in PriceTables
    /\ tracked \in Models
    /\ lastcall = NoCallYet
    /\ CostThreadsIdle
    /\ CoreIdle
    /\ PoolIdle
    /\ UploadIdle
    /\ MoreIdle

\* track_cost(model, 1, state=state) and the caller's save_project(state),
\* or track_cost(model, 1) ("Session only")
track_cost(withState) ==
    /\ Len(SESSION_COST.calls) < MaxCalls
    /\ SESSION_COST' = TrackSession(SESSION_COST, API_COSTS, tracked, 1)
    /\ costs' = IF withState THEN TrackState(costs, API_COSTS, tracked, 1) ELSE costs
    /\ UNCHANGED <<API_COSTS, tracked, lastcall, cpc, cread, NotLedger>>

NextLedger == \E withState \in BOOLEAN : track_cost(withState)

SpecLedger == InitLedger /\ [][NextLedger]_vars

----------------------------------------------------------------------------
(* Charge model: the handlers that call a generation or analysis backend    *)
(* and charge the ledgers, main.py api_audio and api_render_shot.          *)

InitCharge ==
    /\ SESSION_COST = NoLedger
    /\ costs = NoLedger
    /\ API_COSTS \in PriceTables
    /\ tracked = "none"
    /\ lastcall = NoCallYet
    /\ CostThreadsIdle
    /\ CoreIdle
    /\ PoolIdle
    /\ UploadIdle
    /\ MoreIdle

\* local_duration of the uploaded file, in seconds
AudioSeconds == {5, 10}

\* one backend request of a handler and whether its answer was below 300
BackendCall(m, ok) == [model |-> m, ok |-> ok]

\* api_audio: the optional Whisper request is charged when its status is
\* below 300; the audio-understanding request is charged before its status is
\* looked at; a failed analysis returns 502 before save_project
api_audio_costs(use_whisper, whisper_ok, audio_ok, d) ==
    LET charged == use_whisper /\ whisper_ok
        S1 == IF charged THEN TrackSession(SESSION_COST, API_COSTS, "fal-ai/whisper", d)
                         ELSE SESSION_COST
        L1 == IF charged THEN TrackState(costs, API_COSTS, "fal-ai/whisper", d) ELSE costs
        audio_cost_units == IF d \div 5 > 1 THEN d \div 5 ELSE 1
        S2 == TrackSession(S1, API_COSTS, "fal-ai/audio-understanding", audio_cost_units)
        L2 == TrackState(L1, API_COSTS, "fal-ai/audio-understanding", audio_cost_units)
    IN  /\ lastcall.n < MaxOps
        /\ ~use_whisper => ~whisper_ok
        /\ SESSION_COST' = S2
        /\ costs' = IF audio_ok THEN L2 ELSE costs
        /\ lastcall' = [n |-> lastcall.n + 1, op |-> "audio",
                        sent |-> (IF use_whisper
                                  THEN <<BackendCall("fal-ai/whisper", whisper_ok)>>
                                  ELSE <<>>)
                                 \o <<BackendCall("fal-ai/audio-understanding", audio_ok)>>]
        /\ UNCHANGED <<API_COSTS, tracked, cpc, cread, NotLedger>>

\* api_render_shot: img2img is charged after it returned; when there are no
\* references or img2img raised, the t2i request is charged before its status
\* is looked at.  A failed t2i saves the charged state; a finished render
\* saves a freshly loaded state, which has none of the charges.
api_render_shot_costs(refs, img2img_ok, t2i_ok) ==
    LET edited == refs /\ img2img_ok
        S1 == IF edited THEN TrackSession(SESSION_COST, API_COSTS, "fal-ai/flux-2/edit", 1)
                        ELSE SESSION_COST
        L1 == IF edited THEN TrackState(costs, API_COSTS, "fal-ai/flux-2/edit", 1) ELSE costs
        S2 == IF edited THEN S1 ELSE TrackSession(S1, API_COSTS, "fal-ai/flux-2", 1)
        L2 == IF edited THEN L1 ELSE TrackState(L1, API_COSTS, "fal-ai/flux-2", 1)
    IN  /\ lastcall.n < MaxOps
        /\ ~refs => ~img2img_ok
        /\ edited => t2i_ok
        /\ SESSION_COST' = S2
        /\ costs' = IF ~edited /\ ~t2i_ok THEN L2 ELSE costs
        /\ lastcall' = [n |-> lastcall.n + 1, op |-> "render",
                        sent |-> (IF refs
                                  THEN <<BackendCall("fal-ai/flux-2/edit", img2img_ok)>>
                                  ELSE <<>>)
                                 \o (IF edited THEN <<>>
                                     ELSE <<BackendCall("fal-ai/flux-2", t2i_ok)>>)]
        /\ UNCHANGED <<API_COSTS, tracked, cpc, cread, NotLedger>>

NextCharge ==
    \/ \E use_whisper, whisper_ok, audio_ok \in BOOLEAN, d \in AudioSeconds :
           api_audio_costs(use_whisper, whisper_ok, audio_ok, d)
    \/ \E refs, img2img_ok, t2i_ok \in BOOLEAN : api_render_shot_costs(refs, img2img_ok, t2i_ok)

SpecCharge == InitCharge /\ [][NextCharge]_vars

----------------------------------------------------------------------------
(* Image model: concurrent shot render requests.  FastAPI runs the "def"    *)
(* handler api_render_shot in worker threads; no code acquires             *)
(* RENDER_SEMAPHORE.                                                       *)

InitImages ==
    /\ PoolIdle
    /\ CoreIdle
    /\ LedgerIdle
    /\ UploadIdle
    /\ MoreIdle

\* api_render_shot reaches its generation request (call_img2img_editor or the
\* t2i requests.post) without touching the semaphore
ImageGenerate(r) ==
    /\ ipc[r] = "idle"
    /\ ipc' = [ipc EXCEPT ![r] = "generating"]
    /\ UNCHANGED <<RENDER_SEMAPHORE, vpc, VIDEO_SEMAPHORE, NotPool>>

\* the backend answered and the handler returns
ImageReturn(r) ==
    /\ ipc[r] = "generating"
    /\ ipc' = [ipc EXCEPT ![r] = "done"]
    /\ UNCHANGED <<RENDER_SEMAPHORE, vpc, VIDEO_SEMAPHORE, NotPool>>

NextImages ==
    \/ \E r \in ImageRequests : ImageGenerate(r)
    \/ \E r \in ImageRequests : ImageReturn(r)

SpecImages == InitImages /\ [][NextImages]_vars

----------------------------------------------------------------------------
(* Video model: the tasks of one generate_videos_for_shots batch, which     *)
(* an export also runs, next to direct calls of generate_shot_video.       *)

InitVideos ==
    /\ PoolIdle
    /\ CoreIdle
    /\ LedgerIdle
    /\ UploadIdle
    /\ MoreIdle

\* _generate_shot_video_async: "async with semaphore", then run_in_executor
BatchAcquire(v) ==
    /\ vpc[v] = "idle"
    /\ VIDEO_SEMAPHORE > 0
    /\ VIDEO_SEMAPHORE' = VIDEO_SEMAPHORE - 1
    /\ vpc' = [vpc EXCEPT ![v] = "generating"]
    /\ UNCHANGED <<ipc, RENDER_SEMAPHORE, NotPool>>

\* generate_shot_video returned or raised: the "async with" block is left
BatchRelease(v) ==
    /\ vpc[v] = "generating"
    /\ VIDEO_SEMAPHORE' = VIDEO_SEMAPHORE + 1
    /\ vpc' = [vpc EXCEPT ![v] = "done"]
    /\ UNCHANGED <<ipc, RENDER_SEMAPHORE, NotPool>>

\* generate_shot_video called directly: call_img2vid_with_retry is reached
\* without the semaphore
SingleGenerate(v) ==
    /\ vpc[v] = "idle"
    /\ vpc' = [vpc EXCEPT ![v] = "generating"]
    /\ UNCHANGED <<VIDEO_SEMAPHORE, ipc, RENDER_SEMAPHORE, NotPool>>

SingleReturn(v) ==
    /\ vpc[v] = "generating"
    /\ vpc' = [vpc EXCEPT ![v] = "done"]
    /\ UNCHANGED <<VIDEO_SEMAPHORE, ipc, RENDER_SEMAPHORE, NotPool>>

NextVideos ==
    \/ \E v \in BatchTasks : BatchAcquire(v)
    \/ \E v \in BatchTasks : BatchRelease(v)
    \/ \E v \in SingleCalls : SingleGenerate(v)
    \/ \E v \in SingleCalls : SingleReturn(v)

SpecVideos == InitVideos /\ [][NextVideos]_vars

----------------------------------------------------------------------------
(* Session ledger model: request threads inside track_cost at the same      *)
(* time.  "SESSION_COST['total'] += cost" reads the total, adds, and stores *)
(* it; the append is a separate statement.  track_cost takes no lock.      *)

InitCost ==
    /\ SESSION_COST = NoLedger
    /\ costs = NoLedger
    /\ API_COSTS = DefaultCosts
    /\ tracked \in Models
    /\ lastcall = NoCallYet
    /\ CostThreadsIdle
    /\ CoreIdle
    /\ PoolIdle
    /\ UploadIdle
    /\ MoreIdle

\* a thread enters track_cost and reads SESSION_COST["total"]
CostRead(t) ==
    /\ cpc[t] \in {"idle", "done"}
    /\ lastcall.n < MaxTracks
    /\ lastcall' = [lastcall EXCEPT !.n = @ + 1]
    /\ cread' = [cread EXCEPT ![t] = SESSION_COST.total]
    /\ cpc' = [cpc EXCEPT ![t] = "read"]
    /\ UNCHANGED <<SESSION_COST, costs, API_COSTS, tracked, NotLedger>>

\* it stores the total it read plus the cost
CostStore(t) ==
    /\ cpc[t] = "read"
    /\ SESSION_COST' = [SESSION_COST EXCEPT !.total = cread[t] + CostOf(API_COSTS, tracked, 1)]
    /\ cpc' = [cpc EXCEPT ![t] = "stored"]
    /\ UNCHANGED <<costs, API_COSTS, tracked, lastcall, cread, NotLedger>>

\* SESSION_COST["calls"].append(entry)
CostAppend(t) ==
    /\ cpc[t] = "stored"
    /\ SESSION_COST' = [SESSION_COST EXCEPT
                           !.calls = Append(@, CallEntry(API_COSTS, tracked, 1))]
    /\ cpc' = [cpc EXCEPT ![t] = "done"]
    /\ UNCHANGED <<costs, API_COSTS, tracked, lastcall, cread, NotLedger>>

NextCost ==
    \/ \E t \in CostThreads : CostRead(t)
    \/ \E t \in CostThreads : CostStore(t)
    \/ \E t \in CostThreads : CostAppend(t)

SpecCost == InitCost /\ [][NextCost]_vars

----------------------------------------------------------------------------
(* Upload model: prewarm_fal_upload_cache on a project state, then          *)
(* concurrent renders that hand the same state to call_img2img_editor,     *)
(* whose loop calls upload_local_ref_to_fal for every reference.           *)

InitUpload ==
    /\ fal_upload_cache \in {[a \in Assets |-> IF a \in old THEN FalUrl(a, 0) ELSE NotCached] :
                                 old \in SUBSET Assets}
    /\ prewarmed = NotPrewarmed
    /\ expired = {}
    /\ added = [a \in Assets |-> 0]
    /\ upc = [r \in Renders |-> [at |-> 1, step |-> "idle"]]
    /\ CoreIdle
    /\ LedgerIdle
    /\ PoolIdle
    /\ MoreIdle

\* the cached URL of an asset stops answering HEAD below 400 (FAL URLs
\* expire), or the HEAD times out
Expire(a) ==
    /\ fal_upload_cache[a] # NotCached
    /\ fal_upload_cache[a] \notin expired
    /\ expired' = expired \cup {fal_upload_cache[a]}
    /\ UNCHANGED <<fal_upload_cache, prewarmed, added, upc, NotUpload>>

\* prewarm_fal_upload_cache(state): every asset goes through
\* upload_local_ref_to_fal; fails are the assets whose upload raises or whose
\* local file is missing
prewarm_fal_upload_cache(fails) ==
    /\ prewarmed = NotPrewarmed
    /\ fal_upload_cache' =
           [a \in Assets |->
               IF CacheHit(fal_upload_cache, expired, a) \/ a \in fails
               THEN fal_upload_cache[a]
               ELSE FalUrl(a, 1)]
    /\ prewarmed' = [done |-> TRUE,
                     assets |-> {a \in Assets :
                                    CacheHit(fal_upload_cache, expired, a) \/ a \notin fails},
                     urls |-> fal_upload_cache']
    /\ UNCHANGED <<expired, added, upc, NotUpload>>

\* a render starts after the prewarm
RenderStart(r) ==
    /\ prewarmed.done
    /\ upc[r].step = "idle"
    /\ upc' = [upc EXCEPT ![r] = [at |-> 1, step |-> "head"]]
    /\ UNCHANGED <<fal_upload_cache, prewarmed, expired, added, NotUpload>>

\* the render goes on to its next reference, or has uploaded them all
NextRef(u) ==
    IF u.at = Len(RefsOf) THEN [u EXCEPT !.step = "done"]
    ELSE [at |-> u.at + 1, step |-> "head"]

\* upload_local_ref_to_fal, the cache lookup and the HEAD of the cached URL
RenderHead(r) ==
    /\ upc[r].step = "head"
    /\ upc' = [upc EXCEPT ![r] =
                   IF CacheHit(fal_upload_cache, expired, RefsOf[upc[r].at])
                   THEN NextRef(upc[r])
                   ELSE [upc[r] EXCEPT !.step = "upload"]]
    /\ UNCHANGED <<fal_upload_cache, prewarmed, expired, added, NotUpload>>

\* upload_local_ref_to_fal, fal_client.upload_file and the cache write; an
\* upload that raises leaves the cache as it is
RenderUpload(r, ok) ==
    LET a == RefsOf[upc[r].at]
    IN  /\ upc[r].step = "upload"
        /\ fal_upload_cache' = IF ok THEN [fal_upload_cache EXCEPT ![a] = FalUrl(a, added[a] + 2)]
                                     ELSE fal_upload_cache
        /\ added' = IF ok THEN [added EXCEPT ![a] = @ + 1] ELSE added
        /\ upc' = [upc EXCEPT ![r] = NextRef(upc[r])]
        /\ UNCHANGED <<prewarmed, expired, NotUpload>>

NextUpload ==
    \/ \E a \in Assets : Expire(a)
    \/ \E fails \in SUBSET Assets : prewarm_fal_upload_cache(fails)
    \/ \E r \in Renders : RenderStart(r)
    \/ \E r \in Renders : RenderHead(r)
    \/ \E r \in Renders, ok \in BOOLEAN : RenderUpload(r, ok)

SpecUpload == InitUpload /\ [][NextUpload]_vars

----------------------------------------------------------------------------
(* Files model: one project whose shots are rendered and loaded, with the  *)
(* render files each operation leaves on disk.                             *)

\* a stored project with unrendered shots; legacy render files of an earlier
\* version may lie in RENDERS_DIR
InitFiles ==
    /\ \E legacy \in SUBSET {LegacyUrls[i] : i \in 1..Len(LegacyUrls)} :
          rfiles = [shots |-> FreshShots, files |-> legacy, loaded |-> <<>>]
    /\ NotFilesIdle

\* GET /api/project/{id}: load_project with recover_orphaned_renders, which
\* saves when it recovered a render
FilesLoad ==
    /\ LET rec == RecoverState([shots |-> rfiles.shots], LegacyOf(rfiles.files)).shots
       IN  rfiles' = [rfiles EXCEPT !.shots = rec, !.loaded = rec]
    /\ UNCHANGED NotFiles

\* POST /api/project/{id}/shot/{shot_id}/render: generation, download, and
\* the save of the render result into the freshly loaded state
FilesRenderShot(i, gen, dl) ==
    /\ LET rec   == RecoverState([shots |-> rfiles.shots], LegacyOf(rfiles.files)).shots
           files == IF gen = "url" THEN DownloadFiles(rfiles.files, i, dl) ELSE rfiles.files
           shots == [rec EXCEPT ![i].render = render_result(i, gen, dl)]
       IN  rfiles' = [shots |-> shots, files |-> files, loaded |-> shots]
    /\ UNCHANGED NotFiles

NextFiles ==
    \/ FilesLoad
    \/ \E i \in 1..Len(ShotIds), gen \in {"url", "no_url"}, dl \in Downloads :
          FilesRenderShot(i, gen, dl)

SpecFiles == InitFiles /\ [][NextFiles]_vars

----------------------------------------------------------------------------
(* Export model: export runs of one project, one at a time, each going     *)
(* through the checks, the clip loop and the concat, and status polls in   *)
(* between.                                                                *)

InitExport ==
    /\ exportState = NoExport
    /\ NotExportIdle

\* api_export_video / export_video up to the try block: one of the checks
\* raises HTTPException and the handler returns
ExportRejected(check) ==
    /\ exportState.pc = "idle" /\ exportState.runs < MaxExports
    /\ exportState' = [exportState EXCEPT !.ended = "failed", !.runs = @ + 1]
    /\ UNCHANGED NotExport

\* the checks passed: update_export_status(project_id, "processing", 0, total_shots, ...)
ExportStart(total) ==
    /\ exportState.pc = "idle" /\ exportState.runs < MaxExports
    /\ exportState' = [exportState EXCEPT
                          !.status = update_export_status("processing", 0, total, "Starting export"),
                          !.pc = "clips", !.i = 0, !.made = 0, !.ended = "running",
                          !.runs = @ + 1]
    /\ UNCHANGED NotExport

\* one pass of "for i, shot in enumerate(rendered_shots)": the clip is
\* created, or the shot is skipped
ExportClip(success) ==
    /\ exportState.pc = "clips" /\ exportState.i < exportState.status.total
    /\ exportState' =
          IF success
          THEN [exportState EXCEPT
                   !.status = update_export_status("processing", exportState.i + 1,
                                                   exportState.status.total, "Created clip"),
                   !.i = @ + 1, !.made = @ + 1]
          ELSE [exportState EXCEPT !.i = @ + 1]
    /\ UNCHANGED NotExport

\* after the loop: "if not clip_paths" ends the run, otherwise the status
\* says "Concatenating"
ExportClipsDone ==
    /\ exportState.pc = "clips" /\ exportState.i = exportState.status.total
    /\ exportState' =
          IF exportState.made = 0
          THEN [exportState EXCEPT
                   !.status = update_export_status("error", 0, 0, "No clips created"),
                   !.pc = "idle", !.ended = "failed"]
          ELSE [exportState EXCEPT
                   !.status = update_export_status("processing", exportState.status.total,
                                                   exportState.status.total, "Concatenating"),
                   !.pc = "concat"]
    /\ UNCHANGED NotExport

\* the concat: it succeeds and the status is "done", or it fails
ExportConcat(success) ==
    /\ exportState.pc = "concat"
    /\ exportState' =
          IF success
          THEN [exportState EXCEPT
                   !.status = update_export_status("done", exportState.status.total,
                                                   exportState.status.total, "Export complete"),
                   !.pc = "idle", !.ended = "ok"]
          ELSE [exportState EXCEPT
                   !.status = update_export_status("error", 0, 0, "FFmpeg concat failed"),
                   !.pc = "idle", !.ended = "failed"]
    /\ UNCHANGED NotExport

\* an exception raised inside the try block leaves the handler without a
\* status update
ExportRaisedUnrecorded(e) ==
    /\ exportState.pc \in {"clips", "concat"}
    /\ exportState' = [exportState EXCEPT !.pc = "idle", !.ended = "failed"]
    /\ UNCHANGED NotExport

\* "except subprocess.CalledProcessError" and "except Exception": anything
\* raised inside the try block
ExportRaised(e) ==
    /\ exportState.pc \in {"clips", "concat"}
    /\ exportState' = [exportState EXCEPT !.status = update_export_status("error", 0, 0, e),
                                          !.pc = "idle", !.ended = "failed"]
    /\ UNCHANGED NotExport

\* GET /api/project/{id}/export/status
api_export_status ==
    /\ exportState.polled # [after |-> exportState.ended, status |-> exportState.status]
    /\ exportState' = [exportState EXCEPT
                          !.polled = [after |-> exportState.ended, status |-> exportState.status]]
    /\ UNCHANGED NotExport

NextExport ==
    \/ \E check \in PreChecks : ExportRejected(check)
    \/ \E total \in 1..MaxExportShots : ExportStart(total)
    \/ \E success \in BOOLEAN : ExportClip(success)
    \/ ExportClipsDone
    \/ \E success \in BOOLEAN : ExportConcat(success)
    \/ \E e \in Raised : ExportRaised(e)
    \/ api_export_status

SpecExport == InitExport /\ [][NextExport]_vars

----------------------------------------------------------------------------
(* Style model: canonical-ref generations of two cast members, each in its *)
(* own request thread, clears of the style lock, and shot renders.         *)

InitStyle ==
    /\ styleState = NoStyle
    /\ NotStyleIdle

\* api_cast_generate_canonical_refs, from load_project to ref_images: the
\* style lock of the loaded state is the style anchor of the generation
GenLoad(c) ==
    /\ styleState.gen[c].pc = "idle" /\ styleState.runs < MaxStyleRuns
    /\ styleState' = [styleState EXCEPT
                         !.gen[c] = [NoGeneration EXCEPT !.pc = "generate",
                                                         !.anchor = styleState.style_lock_image],
                         !.runs = @ + 1]
    /\ UNCHANGED NotStyle

\* the two call_img2img_editor calls and download_image_locally: the editor
\* raises and the handler ends, or ref_a is the local or the remote URL
GenGenerate(c, ok, ref_a) ==
    /\ styleState.gen[c].pc = "generate"
    /\ styleState' = IF ok
                     THEN [styleState EXCEPT !.gen[c].pc = "wait", !.gen[c].ref_a = ref_a]
                     ELSE [styleState EXCEPT !.gen[c].pc = "idle"]
    /\ UNCHANGED NotStyle

\* with get_project_lock(project_id):
GenAcquire(c) ==
    /\ styleState.gen[c].pc = "wait" /\ styleState.lock = "free"
    /\ styleState' = [styleState EXCEPT !.gen[c].pc = "locked", !.lock = c]
    /\ UNCHANGED NotStyle

\* fresh_state = load_project(project_id)
GenReload(c) ==
    /\ styleState.gen[c].pc = "locked"
    /\ styleState' = [styleState EXCEPT !.gen[c].pc = "fresh",
                                        !.gen[c].fresh = styleState.style_lock_image,
                                        !.gen[c].refs = styleState.character_refs]
    /\ UNCHANGED NotStyle

\* character_refs[cast_id] = {...}, the style lock when there is none,
\* save_project(fresh_state), and the end of the with block
GenSave(c) ==
    /\ styleState.gen[c].pc = "fresh"
    /\ styleState' = [styleState EXCEPT
                         !.style_lock_image = StyleLockAfter(styleState.gen[c].fresh,
                                                             styleState.gen[c].ref_a),
                         !.character_refs = [styleState.gen[c].refs EXCEPT
                                                ![c] = styleState.gen[c].ref_a],
                         !.gen[c].pc = "idle",
                         !.lock = "free",
                         !.first = IF @ = NoFirst
                                   THEN [cast |-> c, ref_a |-> styleState.gen[c].ref_a] ELSE @]
    /\ UNCHANGED NotStyle

\* api_clear_style_lock: state = load_project(project_id)
ClearLoad ==
    /\ styleState.clear.pc = "idle" /\ styleState.runs < MaxStyleRuns
    /\ styleState' = [styleState EXCEPT !.clear = [pc |-> "loaded",
                                                   refs |-> styleState.character_refs],
                                        !.cleared = TRUE,
                                        !.runs = @ + 1]
    /\ UNCHANGED NotStyle

\* style_lock_image = None, save_project(state)
ClearSave ==
    /\ styleState.clear.pc = "loaded"
    /\ styleState' = [styleState EXCEPT !.style_lock_image = NoUrl,
                                        !.character_refs = styleState.clear.refs,
                                        !.clear = NoClear]
    /\ UNCHANGED NotStyle

\* api_render_shot up to the editor call: the image_urls it sends
MainRenderShot(cast_ids, upload_ok) ==
    /\ styleState' = [styleState EXCEPT !.render =
                         [impl |-> "main", style |-> styleState.style_lock_image,
                          image_urls |-> MainRefImages(styleState.style_lock_image, cast_ids,
                                                       styleState.character_refs, upload_ok)]]
    /\ UNCHANGED NotStyle

\* a shot render that takes its references from get_shot_ref_images
ServiceRenderShot(cast_ids) ==
    /\ styleState' = [styleState EXCEPT !.render =
                         [impl |-> "services", style |-> styleState.style_lock_image,
                          image_urls |-> get_shot_ref_images(cast_ids, styleState.character_refs)]]
    /\ UNCHANGED NotStyle

NextStyle ==
    \/ \E c \in StyleCasts : GenLoad(c)
    \/ \E c \in StyleCasts, ok \in BOOLEAN : \E ref_a \in RefAs(c) : GenGenerate(c, ok, ref_a)
    \/ \E c \in StyleCasts : GenAcquire(c)
    \/ \E c \in StyleCasts : GenReload(c)
    \/ \E c \in StyleCasts : GenSave(c)
    \/ ClearLoad
    \/ ClearSave
    \/ \E cast_ids \in ShotCasts, upload_ok \in BOOLEAN : MainRenderShot(cast_ids, upload_ok)
    \/ \E cast_ids \in ShotCasts : ServiceRenderShot(cast_ids)

SpecStyle == InitStyle /\ [][NextStyle]_vars

----------------------------------------------------------------------------
(* Scene model: the timeline is built and repaired, scenes are generated   *)
(* from it, locked and unlocked, and one scene request at a time renders,  *)
(* edits or dresses a scene while other requests are served.               *)

InitScene ==
    /\ sceneState = NoScenes
    /\ NotSceneIdle

\* api_build_sequences: storyboard.sequences is replaced by the n sequences
\* of the LLM answer
SceneBuild(n) ==
    /\ sceneState.ops < MaxSceneOps
    /\ sceneState' = [sceneState EXCEPT !.sequences = SubSeq(SeqIds, 1, n), !.ops = @ + 1]
    /\ UNCHANGED NotScene

\* api_repair_sequences: the sequences that start before the audio ends are
\* kept, the others dropped
SceneRepair(keep) ==
    /\ sceneState.ops < MaxSceneOps
    /\ sceneState.sequences # <<>>
    /\ sceneState' = [sceneState EXCEPT !.sequences = KeptSeqs(sceneState.sequences, keep, 1),
                                        !.ops = @ + 1]
    /\ UNCHANGED NotScene

\* api_castmatrix_autogen_scenes with an LLM answer of the right count
api_castmatrix_autogen_scenes(wardrobe) ==
    /\ sceneState.ops < MaxSceneOps
    /\ sceneState.sequences # <<>>
    /\ sceneState' = [sceneState EXCEPT
                         !.scenes = [i \in 1..Len(sceneState.sequences) |->
                                        CleanScene(sceneState.sequences, i, wardrobe)],
                         !.ops = @ + 1]
    /\ UNCHANGED NotScene

api_castmatrix_scene_decor_lock(i, locked) ==
    /\ sceneState.ops < MaxSceneOps
    /\ i \in 1..Len(sceneState.scenes)
    /\ sceneState' = [sceneState EXCEPT !.scenes[i].decor_locked = locked, !.ops = @ + 1]
    /\ UNCHANGED NotScene

api_castmatrix_scene_wardrobe_lock(i, locked) ==
    /\ sceneState.ops < MaxSceneOps
    /\ i \in 1..Len(sceneState.scenes)
    /\ sceneState' = [sceneState EXCEPT !.scenes[i].wardrobe_locked = locked, !.ops = @ + 1]
    /\ UNCHANGED NotScene

\* the checks a scene request makes on the state it loaded, before it
\* generates anything
SceneJobAccepted(kind, scene) ==
    CASE kind = "render"       -> ~scene.decor_locked
      [] kind = "edit"         -> scene.decor_refs # <<>>
      [] kind = "wardrobe_ref" -> scene.wardrobe # ""

\* a scene request from load_project to the end of its checks: it raises
\* HTTPException, or goes on to generate
SceneJobStart(kind, i) ==
    /\ sceneState.ops < MaxSceneOps
    /\ sceneState.job.pc = "idle"
    /\ i \in 1..Len(sceneState.scenes)
    /\ sceneState' =
          IF SceneJobAccepted(kind, sceneState.scenes[i])
          THEN [sceneState EXCEPT !.job = [NoSceneJob EXCEPT !.pc = "generate", !.kind = kind,
                                              !.scene = i,
                                              !.wardrobe = sceneState.scenes[i].wardrobe],
                                  !.ops = @ + 1]
          ELSE [sceneState EXCEPT !.ops = @ + 1]
    /\ UNCHANGED NotScene

\* the generation and download_image_locally: the decor of a render, the
\* image of an edit, and the wardrobe preview, which a render makes as well
\* when the scene has a wardrobe text; has_ref is whether the lead cast has
\* a ref_a for the preview
SceneJobGenerate(has_ref) ==
    /\ sceneState.job.pc = "generate"
    /\ LET job  == sceneState.job
           i    == job.scene
           made == job.kind # "edit" /\ job.wardrobe # "" /\ has_ref
       IN  IF job.kind = "wardrobe_ref" /\ ~has_ref
           THEN sceneState' = [sceneState EXCEPT !.job = NoSceneJob]
           ELSE sceneState' =
                   [sceneState EXCEPT
                       !.job.pc = "save",
                       !.job.decor_refs = IF job.kind = "render" THEN <<DecorUrl(i)>>
                                          ELSE IF job.kind = "edit" THEN <<EditUrl(i)>>
                                          ELSE <<>>,
                       !.job.wardrobe_ref = IF made THEN WardrobeUrl(i) ELSE NoUrl,
                       !.images[i] = IF made THEN @ + 1 ELSE @]
    /\ UNCHANGED NotScene

\* "with get_project_lock(project_id)": the fresh state is loaded, the
\* scene found by its scene_id gets the new references, and it is saved
SceneJobSave ==
    /\ sceneState.job.pc = "save"
    /\ LET job == sceneState.job
           i   == job.scene
       IN  sceneState' =
              IF i \in 1..Len(sceneState.scenes)
              THEN [sceneState EXCEPT
                       !.scenes[i].decor_refs = IF job.kind = "wardrobe_ref" THEN @
                                                ELSE job.decor_refs,
                       !.scenes[i].wardrobe_ref = IF job.wardrobe_ref # NoUrl
                                                  THEN job.wardrobe_ref ELSE @,
                       !.job = NoSceneJob]
              ELSE [sceneState EXCEPT !.job = NoSceneJob]
    /\ UNCHANGED NotScene

NextScene ==
    \/ \E n \in 1..Len(SeqIds) : SceneBuild(n)
    \/ \E keep \in SUBSET (1..Len(SeqIds)) : SceneRepair(keep)
    \/ \E wardrobe \in Wardrobes : api_castmatrix_autogen_scenes(wardrobe)
    \/ \E i \in 1..Len(SceneIds), locked \in BOOLEAN : api_castmatrix_scene_decor_lock(i, locked)
    \/ \E i \in 1..Len(SceneIds), locked \in BOOLEAN : api_castmatrix_scene_wardrobe_lock(i, locked)
    \/ \E kind \in SceneJobs, i \in 1..Len(SceneIds) : SceneJobStart(kind, i)
    \/ \E has_ref \in BOOLEAN : SceneJobGenerate(has_ref)
    \/ SceneJobSave

SpecScene == InitScene /\ [][NextScene]_vars

----------------------------------------------------------------------------
(* Clip model: one generated clip with every actual and target duration up *)
(* to the bound goes through the adjustment of the img2vid export.         *)

\* a clip of the export: render.video.duration and target_duration of its shot
InitClip ==
    /\ \E a \in 0..MaxClipTenths, t \in 0..MaxClipTenths, trim_ok \in BOOLEAN, speed_ok \in BOOLEAN :
          clipState = [a |-> a, t |-> t, trim_ok |-> trim_ok, speed_ok |-> speed_ok,
                       used |-> Unchanged(a), pc |-> "generated"]
    /\ NotClipIdle

\* adjusted_clips.append(...) for the clip
ExportAdjustClip ==
    /\ clipState.pc = "generated"
    /\ clipState' = [clipState EXCEPT
                        !.used = AdjustClip(clipState.a, clipState.t, clipState.trim_ok,
                                            clipState.speed_ok),
                        !.pc = "adjusted"]
    /\ UNCHANGED NotClip

NextClip == ExportAdjustClip

SpecClip == InitClip /\ [][NextClip]_vars

----------------------------------------------------------------------------
(* Video model: one shot of every storyboard duration up to the bound gets *)
(* its video generated by every model.                                     *)

\* a rendered shot with end - start = target tenths of a second, and the
\* project's video model
InitVideo ==
    /\ \E model_key \in VideoModels, target \in 1..MaxVideoTenths :
          videoState = [NoVideo EXCEPT !.model = model_key, !.target = target, !.pc = "rendered"]
    /\ NotVideoIdle

\* generate_shot_video: call_img2vid with the storyboard duration, and
\* shot["render"]["video"] = {"duration": video_result["duration"],
\* "target_duration": target_duration, ...}
generate_shot_video ==
    /\ videoState.pc = "rendered"
    /\ LET video_result == call_img2vid(videoState.model, videoState.target)
       IN  videoState' = [videoState EXCEPT !.asked = video_result.asked,
                                            !.duration = video_result.duration,
                                            !.target_duration = 100 * videoState.target,
                                            !.pc = "generated"]
    /\ UNCHANGED NotVideo

NextVideo == generate_shot_video

SpecVideo == InitVideo /\ [][NextVideo]_vars

----------------------------------------------------------------------------
(* Reference model: canonical and single reference generations of two cast *)
(* members, and shot renders with their camera language.                   *)

InitRefs ==
    /\ refState = NoRefState
    /\ NotRefsIdle

\* api_cast_generate_canonical_refs: character_refs[cast_id] =
\* {"ref_a": ref_a, "ref_b": ref_b}
RefsCanonical(c) ==
    /\ refState' = [refState EXCEPT !.character_refs[c] =
                       [ref_a |-> LocalRefA(c), ref_b |-> LocalRefB(c)]]
    /\ UNCHANGED NotRefs

\* api_cast_rerender_single_ref, api_cast_upload_ref:
\* char_refs[f"ref_{ref_type}"] = local_path
RefsSingle(c, ref_type) ==
    /\ refState' = IF ref_type = "a"
                   THEN [refState EXCEPT !.character_refs[c].ref_a = LocalRefA(c)]
                   ELSE [refState EXCEPT !.character_refs[c].ref_b = LocalRefB(c)]
    /\ UNCHANGED NotRefs

\* api_render_shot up to the editor call: the cast references it sends
RefsMainRender(camera_language, cast_ids, upload_ok) ==
    /\ refState' = [refState EXCEPT !.render =
                       [impl |-> "main", camera_language |-> camera_language,
                        cast |-> cast_ids, refs |-> refState.character_refs,
                        upload_ok |-> upload_ok,
                        image_urls |-> MainCastRefs(cast_ids, refState.character_refs,
                                                    upload_ok)]]
    /\ UNCHANGED NotRefs

\* a shot render that takes its references from get_shot_ref_images
RefsServiceRender(camera_language, cast_ids) ==
    /\ refState' = [refState EXCEPT !.render =
                       [impl |-> "services", camera_language |-> camera_language,
                        cast |-> cast_ids, refs |-> refState.character_refs,
                        upload_ok |-> TRUE,
                        image_urls |-> get_shot_ref_images(cast_ids,
                                           RefAOf(refState.character_refs))]]
    /\ UNCHANGED NotRefs

NextRefs ==
    \/ \E c \in StyleCasts : RefsCanonical(c)
    \/ \E c \in StyleCasts, ref_type \in {"a", "b"} : RefsSingle(c, ref_type)
    \/ \E camera_language \in CameraLanguages, cast_ids \in ShotCasts, upload_ok \in BOOLEAN :
          RefsMainRender(camera_language, cast_ids, upload_ok)
    \/ \E camera_language \in CameraLanguages, cast_ids \in ShotCasts :
          RefsServiceRender(camera_language, cast_ids)

SpecRefs == InitRefs /\ [][NextRefs]_vars

----------------------------------------------------------------------------
(* Lock model: request threads that call get_project_lock and run a locked *)
(* reload-mutate-save section, one statement of get_project_lock per step. *)

InitLocks ==
    /\ lockState = NoLocks
    /\ NotLocksIdle

\* a handler reaches "with get_project_lock(project_id):"
LockCall(t, p) ==
    /\ lockState.th[t].pc = "idle" /\ lockState.calls < MaxLockCalls
    /\ lockState' = [lockState EXCEPT
                        !.th[t] = [pc |-> "enter", project_id |-> p,
                                   first |-> lockState.PROJECT_LOCKS[p] = NoLock,
                                   got |-> NoLock],
                        !.calls = @ + 1]
    /\ UNCHANGED NotLocks

\* with PROJECT_LOCKS_LOCK:
LockEnter(t) ==
    /\ lockState.th[t].pc = "enter"
    /\ MapLockEntry(lockState.PROJECT_LOCKS_LOCK)
    /\ lockState' = [lockState EXCEPT !.th[t].pc = "check", !.PROJECT_LOCKS_LOCK = t]
    /\ UNCHANGED NotLocks

\* if project_id not in PROJECT_LOCKS:
LockCheck(t) ==
    /\ lockState.th[t].pc = "check"
    /\ lockState' = [lockState EXCEPT !.th[t].pc =
                        IF lockState.PROJECT_LOCKS[lockState.th[t].project_id] = NoLock
                        THEN "create" ELSE "return"]
    /\ UNCHANGED NotLocks

\* PROJECT_LOCKS[project_id] = threading.Lock(): a new lock object
LockCreate(t) ==
    /\ lockState.th[t].pc = "create"
    /\ lockState' = [lockState EXCEPT
                        !.PROJECT_LOCKS[lockState.th[t].project_id] = {lockState.created + 1},
                        !.created = @ + 1,
                        !.th[t].pc = "return"]
    /\ UNCHANGED NotLocks

\* return PROJECT_LOCKS[project_id], and the end of the with block
LockReturn(t) ==
    /\ lockState.th[t].pc = "return"
    /\ LET l == lockState.PROJECT_LOCKS[lockState.th[t].project_id]
       IN  lockState' = [lockState EXCEPT
                            !.th[t].pc = "acquire",
                            !.th[t].got = l,
                            !.returned[lockState.th[t].project_id] = @ \cup l,
                            !.PROJECT_LOCKS_LOCK = "free"]
    /\ UNCHANGED NotLocks

\* "with <the returned lock>:" is entered: fresh_state = load_project(...)
LockAcquire(t) ==
    /\ lockState.th[t].pc = "acquire"
    /\ \E l \in lockState.th[t].got :
          /\ lockState.holder[l] = "free"
          /\ lockState' = [lockState EXCEPT !.th[t].pc = "section", !.holder[l] = t]
    /\ UNCHANGED NotLocks

\* save_project(fresh_state) and the end of the with block
LockRelease(t) ==
    /\ lockState.th[t].pc = "section"
    /\ \E l \in lockState.th[t].got :
          lockState' = [lockState EXCEPT !.th[t].pc = "idle", !.holder[l] = "free"]
    /\ UNCHANGED NotLocks

NextLocks ==
    \/ \E t \in LockThreads, p \in LockProjects : LockCall(t, p)
    \/ \E t \in LockThreads : LockEnter(t)
    \/ \E t \in LockThreads : LockCheck(t)
    \/ \E t \in LockThreads : LockCreate(t)
    \/ \E t \in LockThreads : LockReturn(t)
    \/ \E t \in LockThreads : LockAcquire(t)
    \/ \E t \in LockThreads : LockRelease(t)

SpecLocks == InitLocks /\ [][NextLocks]_vars

----------------------------------------------------------------------------
(* In-flight model: one shot render, from its load to the return of its    *)
(* result, while expansions and sequence builds replace the shot list.     *)

InitFlight ==
    /\ \E v \in {VERSION, OldVersion} : flightState = [NoFlight EXCEPT !.created_version = v]
    /\ NotFlightIdle

\* api_render_shot: state = load_project(project_id) and the shot lookup
\* (404 when the shot is not there)
FlightRenderLoad(shot_id) ==
    /\ flightState.render.pc \in {"idle", "returned"} /\ flightState.ops < MaxFlightOps
    /\ FindShot(flightState.shots, shot_id) # 0
    /\ flightState' = [flightState EXCEPT
                          !.render = [NoFlightRender EXCEPT
                                         !.pc = "generate",
                                         !.shot_id = shot_id,
                                         !.made = flightState.shots[FindShot(flightState.shots,
                                                                             shot_id)].made],
                          !.ops = @ + 1]
    /\ UNCHANGED NotFlight

\* the generation and download_image_locally, up to render_result
FlightRenderGenerate(ok) ==
    /\ flightState.render.pc = "generate"
    /\ flightState' = [flightState EXCEPT
                          !.render.pc = "save",
                          !.render.result = FlightResult(flightState.render.shot_id, ok,
                                                         flightState.render.made)]
    /\ UNCHANGED NotFlight

\* with get_project_lock(project_id): reload, "if fresh_shot:", set, save;
\* return {..., "result": render_result}
FlightRenderSave ==
    /\ flightState.render.pc = "save"
    /\ flightState' = [flightState EXCEPT
                          !.shots = RenderStore(flightState.shots, flightState.created_version,
                                                flightState.render.shot_id,
                                                flightState.render.result),
                          !.render.pc = "returned",
                          !.render.returned = flightState.render.result]
    /\ UNCHANGED NotFlight

\* api_expand_all, api_expand_sequence of the one sequence: the shots of
\* the sequence are replaced by the n shots of the LLM answer, and saved
FlightExpand(n) ==
    /\ flightState.ops < MaxFlightOps
    /\ flightState' = [flightState EXCEPT
                          !.shots = IF SaveRefused([created_version |-> flightState.created_version],
                                                   FALSE)
                                    THEN @
                                    ELSE ExpandedShots(n, flightState.expansions + 1),
                          !.expansions = @ + 1,
                          !.ops = @ + 1]
    /\ UNCHANGED NotFlight

\* api_build_sequences: state["storyboard"]["shots"] = [], saved
FlightBuild ==
    /\ flightState.ops < MaxFlightOps
    /\ flightState' = [flightState EXCEPT
                          !.shots = IF SaveRefused([created_version |-> flightState.created_version],
                                                   FALSE)
                                    THEN @ ELSE <<>>,
                          !.ops = @ + 1]
    /\ UNCHANGED NotFlight

NextFlight ==
    \/ \E j \in 1..Len(ShotIds) : FlightRenderLoad(ShotIds[j])
    \/ \E ok \in BOOLEAN : FlightRenderGenerate(ok)
    \/ FlightRenderSave
    \/ \E n \in 1..Len(ShotIds) : FlightExpand(n)
    \/ FlightBuild

SpecFlight == InitFlight /\ [][NextFlight]_vars

----------------------------------------------------------------------------
(* Timeline model: one export of a storyboard whose shots cover the audio  *)
(* without gaps; each shot gives a clip or is skipped, each clip goes      *)
(* through the adjustment, and the clips are concatenated.                 *)

InitTimeline ==
    /\ \E lengths \in [1..MaxTimelineShots -> ShotLengths] :
          timelineState = [NoTimeline EXCEPT !.shots = Contiguous(lengths, 1, 0),
                                             !.pc = "collect"]
    /\ NotTimelineIdle

\* one pass of "for i, shot in enumerate(rendered_shots)": the clip is
\* appended, or the shot is skipped (no video URL, file not found; in the
\* still export also a failed ffmpeg run or a non-positive duration)
TimelineCollect(found) ==
    /\ timelineState.pc = "collect"
    /\ timelineState.i < Len(timelineState.shots)
    /\ timelineState' = [timelineState EXCEPT
                            !.i = @ + 1,
                            !.video_clips = IF found
                                            THEN Append(@, VideoClip(timelineState.shots,
                                                                     timelineState.i + 1))
                                            ELSE @]
    /\ UNCHANGED NotTimeline

\* "if not video_clips": the export ends with "No video clips generated";
\* otherwise the adjustment loop starts
TimelineCollected ==
    /\ timelineState.pc = "collect"
    /\ timelineState.i = Len(timelineState.shots)
    /\ timelineState' = [timelineState EXCEPT
                            !.pc = IF timelineState.video_clips = <<>> THEN "failed" ELSE "adjust"]
    /\ UNCHANGED NotTimeline

\* one pass of "for i, clip in enumerate(video_clips)": the clip that goes
\* into the concat list, and the duration it plays
TimelineAdjust(a, trim_ok, speed_ok) ==
    /\ timelineState.pc = "adjust"
    /\ timelineState.j < Len(timelineState.video_clips)
    /\ a \in ActualDurations(timelineState.video_clips[timelineState.j + 1].duration)
    /\ timelineState' = [timelineState EXCEPT
                            !.j = @ + 1,
                            !.video_clips[timelineState.j + 1].played =
                                AdjustClip(a, timelineState.video_clips[timelineState.j + 1].duration,
                                           trim_ok, speed_ok).played]
    /\ UNCHANGED NotTimeline

\* concat_clips_with_audio on the adjusted clips
TimelineConcat ==
    /\ timelineState.pc = "adjust"
    /\ timelineState.j = Len(timelineState.video_clips)
    /\ timelineState' = [timelineState EXCEPT !.pc = "done"]
    /\ UNCHANGED NotTimeline

NextTimeline ==
    \/ \E found \in BOOLEAN : TimelineCollect(found)
    \/ TimelineCollected
    \/ \E a \in {20, 30, 50}, trim_ok \in BOOLEAN, speed_ok \in BOOLEAN :
          TimelineAdjust(a, trim_ok, speed_ok)
    \/ TimelineConcat

SpecTimeline == InitTimeline /\ [][NextTimeline]_vars

----------------------------------------------------------------------------
\* the call that the step from the unprimed to the primed state made
Called == last'[Len(last')]

IsCall == last' # last

\* the running version of the implementation a save call belongs to
Running(op) == IF op = "svc_save" THEN SvcVERSION ELSE VERSION

Mismatch(call) ==
    call.arg.created_version # NoVersion /\ call.arg.created_version # Running(call.op)

EqModUpdatedAt(a, b) == [a EXCEPT !.updated_at = 0] = [b EXCEPT !.updated_at = 0]

SavedThenLoaded ==
    /\ Len(last) >= 2
    /\ last[Len(last) - 1].op = "save"
    /\ last[Len(last)].op = "load"

SavedArg == last[Len(last) - 1]

HasOrphan(state) ==
    \E i \in 1..Len(state.shots) :
        /\ state.shots[i].shot_id \in orphans
        /\ ~(state.shots[i].render.image_url # NoUrl /\ state.shots[i].render.status = "done")

RepairIdempotent ==
    [][(applied # <<>> /\ applied[Len(applied)] = "repair"
          /\ applied' = Append(applied, "repair")) => sb' = sb]_vars

\* a second repair has run after a first one that dropped or capped something
RepairIdempotentWitness ==
    /\ applied = <<"repair", "repair">>
    /\ sb # sb0
    /\ sb.shots # <<>>

(* C10: tighten is idempotent: a tighten applied to the result of a        *)
(* tighten leaves every shot's start and end unchanged.                    *)
TightenIdempotent ==
    [][(applied # <<>> /\ applied[Len(applied)] = "tighten"
          /\ applied' = Append(applied, "tighten")) => sb' = sb]_vars

----------------------------------------------------------------------------
(* Claims about the retry wrapper and the generation calls.                *)

WrappedCalls == SelectSeq(reqs, LAMBDA r : r.endpoint \in {"img2img", "img2vid"})

Retryable(r) == r.status = Transport \/ r.status >= 500

ClientError(r) == r.status >= 400 /\ r.status < 500

WrapperReturned == gpc \in {"t2i", "end"} /\ Len(WrappedCalls) > 0

\* C4: a wrapped call that keeps failing with a 5xx status or a transport
\* error is attempted exactly 3 times with waits of 2 s and then 4 s and is
\* then raised to the caller as a 5xx backend error; a successful attempt
\* is the last attempt.
RetryPolicy ==
    /\ Len(WrappedCalls) <= 3
    /\ (WrapperReturned /\ \A i \in 1..Len(WrappedCalls) : Retryable(WrappedCalls[i]))
           => /\ Len(WrappedCalls) = 3
              /\ waits = <<2, 4>>
              /\ exc.kind = "http"
              /\ exc.code >= 500
    /\ \A i \in 1..Len(WrappedCalls) :
           WrappedCalls[i].status = 200 => i = Len(WrappedCalls) /\ WrapperReturned
    /\ \A i \in 1..Len(waits) : i <= 2 /\ waits[i] = 2 * i

\* C5 as stated: a 4xx answer to a generation request of a shot render is
\* the last generation request of that render, and the render has failed.
NoRequestAfterClientError ==
    \A i \in 1..Len(reqs) :
        ClientError(reqs[i]) /\ reqs[i].endpoint # "img2vid" => i = Len(reqs) /\ gpc = "end" /\ gres = "t2i_failed"

\* C5 amended: a 4xx answer is never retried on its endpoint; from the t2i
\* request it ends the render in failure with no further request, from the
\* img2img editor it is followed by at most one request, the t2i fallback.
ClientErrorNotRetried ==
    \A i \in 1..Len(reqs) :
        ClientError(reqs[i]) =>
            CASE reqs[i].endpoint = "t2i" ->
                     i = Len(reqs) /\ gpc = "end" /\ gres = "t2i_failed"
              [] reqs[i].endpoint = "img2img" ->
                 /\ gpc # "img2img"
                 /\ exc = HttpException(reqs[i].status)
                 /\ Len(reqs) <= i + 1
                 /\ Len(reqs) = i + 1 => reqs[i + 1].endpoint = "t2i"
              [] OTHER -> TRUE

ClientErrorNotRetriedWitness ==
    \E i \in 1..Len(reqs) :
        /\ ClientError(reqs[i])
        /\ reqs[i].endpoint = "img2img"
        /\ Len(reqs) = i + 1
        /\ reqs[i + 1].endpoint = "t2i"
        /\ gpc = "end"

----------------------------------------------------------------------------
(* Claims about concurrent requests.                                       *)

AllReturned == \A t \in Threads : pc[t] \in {"done", "idle"}

Persisted == Parse(file.text)

HasResult(t) == rres[t] \in {"done", "error", "t2i_failed"}

\* C1: once all the parallel renders have returned, the stored document
\* holds the render result of every render that ended with done or error.
NoRenderLost ==
    AllReturned =>
        /\ Parses(file.text)
        /\ \A t \in RenderThreads :
               HasResult(t) =>
                   Persisted.shots[ShotOf(t)].render = RenderResult(rres[t], ShotOf(t))

Succeeded(t) == pc[t] = "done" /\ ret[t] = "ok"

\* the shots a sequential run of the requests that succeeded leaves
SequentialShots ==
    [i \in 1..Len(FreshShots) |->
        LET timed == IF Succeeded("tighten") THEN Tighten(FreshShots)[i] ELSE FreshShots[i]
            by    == {t \in RenderThreads : ShotOf(t) = i /\ Succeeded(t) /\ HasResult(t)}
        IN  IF by = {} THEN timed
            ELSE [timed EXCEPT !.render = RenderResult(rres[CHOOSE t \in by : TRUE], i)]]

\* a thread inside write_text holds the project lock
WritersHoldLock == \A t \in Threads : pc[t] \in {"open", "write"} => lock = t

\* once all requests have returned the stored document is the one a
\* sequential run of the requests that succeeded leaves
NoStaleOverwrite ==
    AllReturned => Parses(file.text) /\ Persisted.shots = SequentialShots

\* C2: every write of the project file is made by the holder of the
\* project lock, and once all requests have returned the stored document is
\* the one a sequential run of the requests that succeeded leaves.
WritesLinearizable == WritersHoldLock /\ NoStaleOverwrite

\* C3: the stored document never holds a shot with render.status
\* "rendering": every stored status is none, done or error, also when a
\* render failed midway.
NoRenderingPersisted ==
    Parses(file.text) =>
        \A i \in 1..Len(Persisted.shots) :
            Persisted.shots[i].render.status \in {"none", "done", "error"}

NoRenderingPersistedWitness ==
    /\ AllReturned
    /\ Parses(file.text)
    /\ rres["r1"] = "raised"
    /\ Persisted.shots[1].render.status = "none"
    /\ rres["r2"] = "error"
    /\ Persisted.shots[2].render.status = "error"

\* C8: no load of the project fails on, or returns, an incomplete document.
LoadSeesCompleteDocument ==
    \A t \in Threads : ret[t] # "JSONDecodeError"

----------------------------------------------------------------------------
(* Claims about the timeline invariants.                                   *)

\* C11: every stored sequence satisfies 0 <= start < end <= duration_sec.
SequencesWithinAudio ==
    \A i \in 1..Len(sb.sequences) :
        /\ 0 <= sb.sequences[i].start
        /\ sb.sequences[i].start < sb.sequences[i].end
        /\ sb.sequences[i].end <= duration

\* C12: every cast_id in the cast list of a sequence or a shot is the
\* cast_id of an existing cast member.
CastReferencesExist ==
    /\ \A i \in 1..Len(castState.seq_cast) : castState.seq_cast[i] \subseteq CastIdsOf(castState)
    /\ \A i \in 1..Len(castState.shot_cast) : castState.shot_cast[i] \subseteq CastIdsOf(castState)

\* C13: after a repair, the shots of every sequence, sorted by start, cover
\* the sequence's range without a gap and without an overlap.
CoverageAfterRepair ==
    (applied # <<>> /\ applied[Len(applied)] = "repair") => validate_shots_coverage(sb)

\* C14: after a repair against duration D no kept sequence or shot ends
\* after D, and a sequence with start < D < end is kept, with the same start
\* and with end = D.
RepairCapsAtDuration ==
    [][(applied' = Append(applied, "repair")) =>
          /\ \A j \in 1..Len(sb'.sequences) : sb'.sequences[j].end <= duration
          /\ \A j \in 1..Len(sb'.shots) : sb'.shots[j].end <= duration
          /\ \A i \in 1..Len(sb.sequences) :
                 (sb.sequences[i].start < duration /\ duration < sb.sequences[i].end)
                     => \E j \in 1..Len(sb'.sequences) :
                            sb'.sequences[j] = [sb.sequences[i] EXCEPT !.end = duration]]_vars

\* one repair capped a sequence and a shot of it that both ran past the audio
RepairCapsAtDurationWitness ==
    /\ applied = <<"repair">>
    /\ \E i \in 1..Len(sb0.sequences) :
           /\ sb0.sequences[i].start < duration /\ duration < sb0.sequences[i].end
           /\ \E j \in 1..Len(sb.sequences) :
                  sb.sequences[j] = [sb0.sequences[i] EXCEPT !.end = duration]
    /\ \E i \in 1..Len(sb0.shots), j \in 1..Len(sb.shots) :
           /\ sb0.shots[i].end > duration
           /\ sb.shots[j] = [sb0.shots[i] EXCEPT !.end = duration]

\* C15: after any sequence of tracked calls, more than 100 on one project
\* included, the total of the session ledger and of the project ledger
\* differs from the sum of the entries of its calls list by at most
\* 0.0001 USD.
LedgerTotalMatchesCalls ==
    /\ Abs(SESSION_COST.total - SumCalls(SESSION_COST.calls, 1)) <= Cent4
    /\ Abs(costs.total - SumCalls(costs.calls, 1)) <= Cent4

\* the backend requests of a handler run that were answered below 300
OkCalls(sent) == Cardinality({i \in 1..Len(sent) : sent[i].ok})

\* C16: a failed backend call adds no entry and no amount to the session
\* ledger or to the project ledger: a handler run adds at most one entry per
\* successful backend request, and nothing when every request failed.
FailedCallsNotCharged ==
    [][(lastcall'.n # lastcall.n) =>
          /\ Len(SESSION_COST'.calls) - Len(SESSION_COST.calls) <= OkCalls(lastcall'.sent)
          /\ Len(costs'.calls) - Len(costs.calls) <= OkCalls(lastcall'.sent)
          /\ (OkCalls(lastcall'.sent) = 0) =>
                 (SESSION_COST'.total = SESSION_COST.total /\ costs'.total = costs.total)]_vars

InFlightImages == Cardinality({r \in ImageRequests : ipc[r] = "generating"})

\* C17: the image generation calls in flight never exceed P_image, and every
\* image generation in flight holds a permit of the image semaphore.
ImagesWithinPermits ==
    /\ InFlightImages <= P_image
    /\ RENDER_SEMAPHORE = P_image - InFlightImages

InFlightVideos == Cardinality({v \in BatchTasks \cup SingleCalls : vpc[v] = "generating"})

\* C18: the video generation calls in flight never exceed P_video, counting
\* the tasks of batches and exports and the single-shot generations.
VideosWithinPermits == InFlightVideos <= P_video

\* C19: the writers of SESSION_COST are mutually exclusive: at most one
\* thread is between reading the total and appending its entry, and when no
\* thread is inside track_cost the total is the sum of the entries and every
\* call has exactly one entry.
SessionCostWritersExclusive ==
    /\ Cardinality({t \in CostThreads : cpc[t] \in {"read", "stored"}}) <= 1
    /\ (\A t \in CostThreads : cpc[t] \in {"idle", "done"}) =>
           /\ SESSION_COST.total = SumCalls(SESSION_COST.calls, 1)
           /\ Len(SESSION_COST.calls) = lastcall.n

(* C20 as stated: after prewarm_fal_upload_cache, the concurrent renders    *)
(* perform no upload of a prewarmed asset.                                 *)
NoUploadAfterPrewarm ==
    prewarmed.done => \A a \in prewarmed.assets : added[a] = 0

(* C20 amended: after prewarm_fal_upload_cache, a render uploads a          *)
(* prewarmed asset again only after the URL that the prewarm left cached   *)
(* for it has failed its HEAD revalidation; while those URLs answer, the   *)
(* renders perform no upload of a prewarmed asset.                         *)
UploadOnlyWhenStale ==
    prewarmed.done =>
        \A a \in prewarmed.assets : added[a] > 0 => prewarmed.urls[a] \in expired

\* prewarm uploaded every asset and every render went through all its
\* references without an upload
UploadOnlyWhenStaleWitness ==
    /\ prewarmed.done /\ prewarmed.assets = Assets
    /\ \A a \in Assets : fal_upload_cache[a] = FalUrl(a, 1)
    /\ \A r \in Renders : upc[r].step = "done"
    /\ \A a \in Assets : added[a] = 0

\* C21: a shot render changes nothing in the persisted project other than
\* the render of its own shot: when a render's save is written, every other
\* shot is as the latest persisted document had it.
RenderFrame ==
    [][\A t \in RenderThreads :
          (pc[t] = "write" /\ pc'[t] = "done") =>
              \A i \in 1..Len(Parse(file.copy).shots) :
                  i # ShotOf(t) => Parse(file'.text).shots[i] = Parse(file.copy).shots[i]]_vars

\* C22: every shot whose render status is done has an image_url that
\* resolves to an existing file, in every state a load returned or an
\* operation wrote.
DoneRendersResolve ==
    /\ \A i \in 1..Len(rfiles.shots) :
          rfiles.shots[i].render.status = "done" =>
              Resolves(rfiles.shots[i].render.image_url, rfiles.files)
    /\ \A i \in 1..Len(rfiles.loaded) :
          rfiles.loaded[i].render.status = "done" =>
              Resolves(rfiles.loaded[i].render.image_url, rfiles.files)

\* C23: whenever an export run has failed, for whatever reason, the next
\* status poll of the project returns status = error with a message, not
\* idle, processing or the done of an earlier run.
FailedExportPollsError ==
    exportState.polled.after = "failed" =>
        /\ exportState.polled.status.status = "error"
        /\ exportState.polled.status.message # ""

\* C24: when the style lock is set, the image_urls a shot render sends to
\* the img2img editor contain neither the style-lock URL nor an upload of
\* the style-lock image.
StyleLockNotSent ==
    styleState.render.style # NoUrl =>
        \A k \in 1..Len(styleState.render.image_urls) :
            styleState.render.image_urls[k].url # styleState.render.style

DecorLockHolds ==
    [][(sceneState.job.pc = "save" /\ sceneState'.job.pc = "idle"
            /\ sceneState.job.kind \in {"render", "edit"}) =>
          \A i \in 1..Len(sceneState.scenes) :
              sceneState.scenes[i].decor_locked =>
                  sceneState'.scenes[i].decor_refs = sceneState.scenes[i].decor_refs]_vars

\* C27: while a scene's wardrobe_locked flag is true, no scene request
\* generates a new wardrobe image for the scene or replaces its
\* wardrobe_ref.
WardrobeLockHolds ==
    [][(sceneState.job.pc # "idle" /\ sceneState'.job # sceneState.job) =>
          \A i \in 1..Len(sceneState.scenes) :
              sceneState.scenes[i].wardrobe_locked =>
                  /\ sceneState'.scenes[i].wardrobe_ref = sceneState.scenes[i].wardrobe_ref
                  /\ sceneState'.images[i] = sceneState.images[i]]_vars

\* C28: whenever scenes exist, the scene list is as long as the sequence
\* list and scene i carries the sequence_id of sequence i.
ScenesMatchSequences ==
    sceneState.scenes # <<>> =>
        /\ Len(sceneState.scenes) = Len(sceneState.sequences)
        /\ \A i \in 1..Len(sceneState.scenes) :
              sceneState.scenes[i].sequence_id = sceneState.sequences[i]

(* C29 as stated: a clip with actual duration a and target t is trimmed to *)
(* t without speed change if a > t + 0.1; otherwise, if the trim failed or *)
(* a < t, it is speed-adjusted by a/t and plays t; otherwise it is used    *)
(* unchanged. Stated for clips whose durations are both known and whose    *)
(* speed command succeeds.                                                 *)
ClipAdjustedAsStated ==
    (clipState.pc = "adjusted" /\ clipState.a > 0 /\ clipState.t > 0 /\ clipState.speed_ok) =>
        LET a == clipState.a
            t == clipState.t
            u == clipState.used
        IN  IF a > t + ClipTolerance /\ clipState.trim_ok
            THEN u.action = "trim" /\ u.played = t
            ELSE IF a > t + ClipTolerance \/ a < t
            THEN u.action = "speed" /\ u.num = a /\ u.den = t /\ u.played = t
            ELSE u = Unchanged(a)

(* C29 amended: a clip whose durations are both known and differ by more   *)
(* than 0.1 s is trimmed to t without speed change if it is longer than t  *)
(* and the trim succeeds; is speed-adjusted by a/t and plays t if it is    *)
(* shorter than t or the trim failed, and the speed command succeeds; in   *)
(* every other case (within 0.1 s on either side, a duration unknown, both *)
(* commands failed) it is used unchanged.                                  *)
ClipAdjusted ==
    clipState.pc = "adjusted" =>
        LET a   == clipState.a
            t   == clipState.t
            u   == clipState.used
            off == a > 0 /\ t > 0 /\ (a > t + ClipTolerance \/ a < t - ClipTolerance)
        IN  /\ (off /\ a > t /\ clipState.trim_ok) => (u.action = "trim" /\ u.played = t)
            /\ (off /\ (a < t \/ ~clipState.trim_ok) /\ clipState.speed_ok) =>
                   (u.action = "speed" /\ u.num = a /\ u.den = t /\ u.played = t)
            /\ (~off \/ (~clipState.speed_ok /\ (a < t \/ ~clipState.trim_ok))) => u = Unchanged(a)
            /\ u.action = "trim" => u.num = u.den

\* a clip of 5.0 s for a target of 3.2 s was trimmed
ClipAdjustedWitness ==
    /\ clipState.pc = "adjusted"
    /\ clipState.a = 5 /\ clipState.t = 3
    /\ clipState.used.action = "trim" /\ clipState.used.played = 3

\* C30: for every model and every storyboard duration, the stored
\* render.video.duration equals the duration of the clip the model was
\* asked to generate, after the clamp and the model-specific mapping.
StoredDurationIsRequested ==
    videoState.pc = "generated" => videoState.duration = videoState.asked

\* C31: a successful sequence build on audio of duration D stores exactly
\* the target number of sequences for D, whatever the LLM returned, with the
\* first sequence starting at 0 and the last ending at D.
BuildStoresTarget ==
    (applied # <<>> /\ applied[Len(applied)] = "build") =>
        /\ Len(sb.sequences) = target_sequences_and_shots(duration)[1]
        /\ Len(sb.sequences) > 0
        /\ sb.sequences[1].start = 0
        /\ sb.sequences[Len(sb.sequences)].end = duration

\* C32: for a shot whose camera_language contains one of close-up, closeup,
\* portrait, head shot, face or eyes, the renderer selects for each cast
\* member its ref_b, falling back to ref_a when ref_b is missing; for any
\* other shot it selects ref_a.  Stated for renders whose uploads succeed.
CloseupSelectsRefB ==
    LET r == refState.render
    IN  (r.impl # "none" /\ r.upload_ok) =>
            \A k \in 1..Len(r.cast) :
                LET refs      == r.refs[r.cast[k]]
                    preferred == IF r.camera_language \in CloseupLanguages /\ refs.ref_b # NoUrl
                                 THEN refs.ref_b ELSE refs.ref_a
                    sent      == {u \in {refs.ref_a, refs.ref_b} \ {NoUrl} :
                                     \E j \in 1..Len(r.image_urls) : r.image_urls[j].url = u}
                IN  sent = {preferred} \ {NoUrl}

\* C33: for a given project_id get_project_lock always returns the same
\* lock object, also when several threads request it for the first time
\* concurrently, so at most one thread at a time is inside a locked
\* reload-mutate-save section of that project.
OneLockPerProject ==
    /\ \A p \in LockProjects : Cardinality(lockState.returned[p]) <= 1
    /\ \A t, u \in LockThreads :
          (/\ t # u
           /\ lockState.th[t].pc = "section"
           /\ lockState.th[u].pc = "section")
          => lockState.th[t].project_id # lockState.th[u].project_id

\* two threads asked for the lock of a project that had none yet; one of
\* them is inside its section and the other waits for the same lock
OneLockPerProjectWitness ==
    \E t, u \in LockThreads :
        /\ t # u
        /\ lockState.th[t].project_id = lockState.th[u].project_id
        /\ lockState.th[t].first /\ lockState.th[u].first
        /\ lockState.th[t].pc = "section"
        /\ lockState.th[u].pc = "acquire"
        /\ lockState.th[u].got = lockState.th[t].got

\* C34: a video generation call that fails with a 5xx status or a transport
\* error is retried automatically, up to 3 attempts in total, before the
\* shot's video generation is reported as failed.
VideoFailureRetried ==
    (/\ gpc = "end" /\ gres = "raised"
     /\ \A i \in 1..Len(reqs) : reqs[i].endpoint = "img2vid" /\ Retryable(reqs[i]))
    => Len(reqs) = MaxRetries

\* C35: if a shot render call returns a result with status done for shot s,
\* then at the moment it returns the persisted project state has
\* s.render.status = done with the returned image_url; a render whose result
\* could not be saved is not reported as done.
DoneRenderIsPersisted ==
    [][(/\ flightState.render.pc = "save"
        /\ flightState'.render.pc = "returned"
        /\ flightState'.render.returned.status = "done")
       => LET i == FindShot(flightState'.shots, flightState'.render.shot_id)
          IN  /\ i # 0
              /\ flightState'.shots[i].render.status = "done"
              /\ flightState'.shots[i].render.image_url
                     = flightState'.render.returned.image_url]_vars

\* C40: a render result is only ever stored on the shot definition it was
\* generated from: no persisted shot carries the render of an earlier
\* definition that had the same shot_id.
RenderOnItsOwnShot ==
    \A i \in 1..Len(flightState.shots) :
        flightState.shots[i].render.status # "none"
            => flightState.shots[i].render.made = flightState.shots[i].made

\* C36: every export run that sets the project's export status to
\* processing sets it to done or to error before the run ends, on every
\* path including exceptions; when no export run is in progress the status
\* is never processing.
ExportRunsSettle ==
    /\ [](exportState.pc = "idle" => exportState.status.status # "processing")
    /\ [][(exportState.pc # "idle" /\ exportState'.pc = "idle")
             => exportState'.status.status \in {"done", "error"}]_vars

\* a run that had set the status to processing was ended by an exception
\* raised inside its try block
ExportRunsSettleWitness ==
    /\ exportState.pc = "idle"
    /\ exportState.ended = "failed"
    /\ exportState.status.status = "error"
    /\ exportState.status.message \in Raised

\* C37: if before tighten every shot satisfies start < end and lies within
\* its sequence's [start, end], then after tighten every shot still
\* satisfies start < end and no shot's end lies beyond its sequence's end
\* or the audio duration.
TightenKeepsShotsValid ==
    [][(/\ applied' = Append(applied, "tighten")
        /\ \A i \in 1..Len(sb.shots) :
              /\ sb.shots[i].start < sb.shots[i].end
              /\ \E k \in 1..Len(sb.sequences) :
                    /\ sb.sequences[k].sequence_id = sb.shots[i].sequence_id
                    /\ sb.sequences[k].start <= sb.shots[i].start
                    /\ sb.shots[i].end <= sb.sequences[k].end)
       => \A i \in 1..Len(sb'.shots) :
              /\ sb'.shots[i].start < sb'.shots[i].end
              /\ sb'.shots[i].end <= duration
              /\ \A k \in 1..Len(sb'.sequences) :
                    sb'.sequences[k].sequence_id = sb'.shots[i].sequence_id
                        => sb'.shots[i].end <= sb'.sequences[k].end]_vars

\* C38: after any sequence of cast add and cast delete operations the
\* cast_id values of the members of the cast list are pairwise distinct.
CastIdsDistinct ==
    \A i, j \in 1..Len(castState.cast) :
        i # j => castState.cast[i] # castState.cast[j]

\* C39: in the exported video every included shot's clip starts at that
\* shot's storyboard start time: the played durations of the clips placed
\* before it sum to shot.start, also when some shots are skipped or a clip
\* adjustment fails.
ClipsStartAtShotStart ==
    timelineState.pc = "done" =>
        \A k \in 1..Len(timelineState.video_clips) :
            StartsAt(timelineState.video_clips, k)
                = timelineState.shots[timelineState.video_clips[k].shot].start

====
